---- MODULE Spec2Model ----
(***************************************************************************)
(* decimal64: fixed-point decimal arithmetic over a signed machine word    *)
(* (shared/include/decimal64/decimal64.hpp).                               *)
(*                                                                         *)
(* The library is built on int64_t.  TLC's integers are 32 bits wide, so   *)
(* the machine word is modelled two's complement at WordBits bits; the     *)
(* constants the source derives from the word (kMaxInt64, kMinInt64,       *)
(* kMaxDecimalDigits, the table of powers of ten) are derived from         *)
(* WordBits exactly as the source derives them from 64.  Every arithmetic  *)
(* step of the source is one Add64/Sub64/Mul64/Div64/Mod64/Neg64/Abs       *)
(* step here, which wraps at the word and records that signed overflow     *)
(* (undefined behaviour) has happened.                                     *)
(***************************************************************************)
EXTENDS Integers, Sequences, FiniteSets, TLC

----------------------------------------------------------------------------
(* The machine word *)

WordBits == 10

kMaxInt64 == 2^(WordBits - 1) - 1

kMinInt64 == -(2^(WordBits - 1))

Int64 == kMinInt64..kMaxInt64

Fits(x) == x >= kMinInt64 /\ x <= kMaxInt64

\* two's complement wrap of a mathematical integer to the word
Wrap(x) == ((x - kMinInt64) % (2^WordBits)) + kMinInt64

\* A machine value: v the bits held, ub whether computing it overflowed the
\* signed word (undefined behaviour), fault whether it divided by zero.
I64(x) == [v |-> x, ub |-> FALSE, fault |-> FALSE]

Arith(raw, x, y) ==
  [v |-> Wrap(raw), ub |-> x.ub \/ y.ub \/ ~Fits(raw), fault |-> x.fault \/ y.fault]

Add64(x, y) == Arith(x.v + y.v, x, y)

Sub64(x, y) == Arith(x.v - y.v, x, y)

Mul64(x, y) == Arith(x.v * y.v, x, y)

Neg64(x) == Arith(-x.v, x, x)

MathAbs(n) == IF n >= 0 THEN n ELSE -n

\* C++ integer division truncates toward zero
TruncDiv(n, d) ==
  IF (n >= 0) = (d > 0) THEN MathAbs(n) \div MathAbs(d)
  ELSE -(MathAbs(n) \div MathAbs(d))

Div64(x, y) ==
  IF y.v = 0 THEN [v |-> 0, ub |-> x.ub \/ y.ub, fault |-> TRUE]
  ELSE Arith(TruncDiv(x.v, y.v), x, y)

\* the remainder has the sign of the dividend; kMinInt64 % -1 overflows as
\* kMinInt64 / -1 does
Mod64(x, y) ==
  IF y.v = 0 THEN [v |-> 0, ub |-> x.ub \/ y.ub, fault |-> TRUE]
  ELSE [v |-> x.v - y.v * TruncDiv(x.v, y.v),
        ub |-> x.ub \/ y.ub \/ ~Fits(TruncDiv(x.v, y.v)),
        fault |-> x.fault \/ y.fault]

Abs(value) == IF value.v >= 0 THEN value ELSE Neg64(value)

----------------------------------------------------------------------------
(* Powers of ten *)

kMaxDecimalDigits ==
  CHOOSE x \in 0..9 : 10^x <= kMaxInt64 /\ kMaxInt64 \div 10 < 10^x

Pow10(exp) == 10^exp

Precisions == 0..kMaxDecimalDigits

----------------------------------------------------------------------------
(* Rounding policies: DivRounded(output, a, b) *)

\* what DivRounded leaves: ok its return value, v the bits of output, ub and
\* fault those of every machine value it computed on the way
Rounded(e, used) ==
  [ok |-> TRUE, v |-> e.v,
   ub |-> e.ub \/ (\E u \in used : u.ub),
   fault |-> e.fault \/ (\E u \in used : u.fault)]

NotRounded(used) ==
  [ok |-> FALSE, v |-> 0,
   ub |-> \E u \in used : u.ub,
   fault |-> \E u \in used : u.fault]

NullRoundPolicy_DivRounded(a, b) == Rounded(Div64(I64(a), I64(b)), {})

DefRoundPolicy_DivRounded(a, b) ==
  LET divisor_corr == Abs(Div64(I64(b), I64(2)))
  IN  IF a >= 0
      THEN IF kMaxInt64 - a >= divisor_corr.v
           THEN Rounded(Div64(Add64(I64(a), divisor_corr), I64(b)), {})
           ELSE NotRounded({divisor_corr})
      ELSE IF -(kMinInt64 - a) >= divisor_corr.v
           THEN Rounded(Div64(Sub64(I64(a), divisor_corr), I64(b)), {})
           ELSE NotRounded({divisor_corr})

HalfDownRoundPolicy_DivRounded(a, b) ==
  LET divisor_corr == Div64(Abs(I64(b)), I64(2))
      remainder == Mod64(Abs(I64(a)), Abs(I64(b)))
  IN  IF a >= 0
      THEN IF kMaxInt64 - a >= divisor_corr.v
           THEN IF remainder.v > divisor_corr.v
                THEN Rounded(Div64(Add64(I64(a), divisor_corr), I64(b)),
                             {remainder})
                ELSE Rounded(Div64(I64(a), I64(b)), {remainder, divisor_corr})
           ELSE NotRounded({remainder, divisor_corr})
      ELSE IF -(kMinInt64 - a) >= divisor_corr.v
           THEN Rounded(Div64(Sub64(I64(a), divisor_corr), I64(b)),
                        {remainder})
           ELSE NotRounded({remainder, divisor_corr})

HalfUpRoundPolicy_DivRounded(a, b) ==
  LET divisor_corr == Div64(Abs(I64(b)), I64(2))
      remainder == Mod64(Abs(I64(a)), Abs(I64(b)))
  IN  IF a >= 0
      THEN IF kMaxInt64 - a >= divisor_corr.v
           THEN IF remainder.v >= divisor_corr.v
                THEN Rounded(Div64(Add64(I64(a), divisor_corr), I64(b)),
                             {remainder})
                ELSE Rounded(Div64(I64(a), I64(b)), {remainder, divisor_corr})
           ELSE NotRounded({remainder, divisor_corr})
      ELSE IF -(kMinInt64 - a) >= divisor_corr.v
           THEN IF remainder.v < divisor_corr.v
                THEN Rounded(Div64(Sub64(I64(a), remainder), I64(b)),
                             {divisor_corr})
                ELSE IF remainder.v = divisor_corr.v
                THEN Rounded(Div64(Add64(I64(a), divisor_corr), I64(b)),
                             {remainder})
                ELSE Rounded(Div64(Sub64(Add64(I64(a), remainder),
                                         Abs(I64(b))), I64(b)),
                             {divisor_corr})
           ELSE NotRounded({remainder, divisor_corr})

HalfEvenRoundPolicy_DivRounded(a, b) ==
  LET divisor_div2 == Div64(Abs(I64(b)), I64(2))
      remainder == Mod64(Abs(I64(a)), Abs(I64(b)))
      quot == Div64(I64(a), I64(b))
      is_even == Mod64(Abs(quot), I64(2)).v = 0
      up == Div64(Add64(Sub64(I64(a), remainder), Abs(I64(b))), I64(b))
      down == Div64(Sub64(Add64(I64(a), remainder), Abs(I64(b))), I64(b))
  IN  IF remainder.v = 0
      THEN Rounded(quot, {remainder, divisor_div2})
      ELSE IF a >= 0
      THEN IF remainder.v > divisor_div2.v
           THEN Rounded(up, {divisor_div2})
           ELSE IF remainder.v < divisor_div2.v
           THEN Rounded(Div64(Sub64(I64(a), remainder), I64(b)),
                        {divisor_div2})
           ELSE IF is_even
           THEN Rounded(quot, {remainder, divisor_div2, Abs(quot)})
           ELSE Rounded(up, {divisor_div2, Abs(quot)})
      ELSE IF remainder.v > divisor_div2.v
           THEN Rounded(down, {divisor_div2})
           ELSE IF remainder.v < divisor_div2.v
           THEN Rounded(Div64(Add64(I64(a), remainder), I64(b)),
                        {divisor_div2})
           ELSE IF is_even
           THEN Rounded(quot, {remainder, divisor_div2, Abs(quot)})
           ELSE Rounded(down, {divisor_div2, Abs(quot)})

CeilingRoundPolicy_DivRounded(a, b) ==
  LET remainder == Mod64(Abs(I64(a)), Abs(I64(b)))
  IN  IF remainder.v = 0
      THEN Rounded(Div64(I64(a), I64(b)), {remainder})
      ELSE IF a >= 0
      THEN Rounded(Div64(Add64(I64(a), Abs(I64(b))), I64(b)), {remainder})
      ELSE Rounded(Div64(I64(a), I64(b)), {remainder})

FloorRoundPolicy_DivRounded(a, b) ==
  LET remainder == Mod64(Abs(I64(a)), Abs(I64(b)))
  IN  IF remainder.v = 0
      THEN Rounded(Div64(I64(a), I64(b)), {remainder})
      ELSE IF a >= 0
      THEN Rounded(Div64(Sub64(I64(a), remainder), I64(b)), {})
      ELSE Rounded(Div64(Sub64(Add64(I64(a), remainder), Abs(I64(b))),
                         I64(b)), {})

RoundUpRoundPolicy_DivRounded(a, b) ==
  LET remainder == Mod64(Abs(I64(a)), Abs(I64(b)))
  IN  IF remainder.v = 0
      THEN Rounded(Div64(I64(a), I64(b)), {remainder})
      ELSE IF a >= 0
      THEN Rounded(Div64(Add64(I64(a), Abs(I64(b))), I64(b)), {remainder})
      ELSE Rounded(Div64(Sub64(I64(a), Abs(I64(b))), I64(b)), {remainder})

\* RoundDownRoundPolicy inherits NullRoundPolicy
RoundPolicies ==
  {"Null", "Def", "HalfDown", "HalfUp", "HalfEven", "Ceiling", "Floor",
   "RoundDown", "RoundUp"}

\* RoundPolicy::DivRounded for the policy a Decimal type is instantiated with
DivRounded(policy, a, b) ==
  CASE policy = "Null" -> NullRoundPolicy_DivRounded(a, b)
    [] policy = "RoundDown" -> NullRoundPolicy_DivRounded(a, b)
    [] policy = "Def" -> DefRoundPolicy_DivRounded(a, b)
    [] policy = "HalfDown" -> HalfDownRoundPolicy_DivRounded(a, b)
    [] policy = "HalfUp" -> HalfUpRoundPolicy_DivRounded(a, b)
    [] policy = "HalfEven" -> HalfEvenRoundPolicy_DivRounded(a, b)
    [] policy = "Ceiling" -> CeilingRoundPolicy_DivRounded(a, b)
    [] policy = "Floor" -> FloorRoundPolicy_DivRounded(a, b)
    [] policy = "RoundUp" -> RoundUpRoundPolicy_DivRounded(a, b)

----------------------------------------------------------------------------
(* Rounding policies: Round(value).  The long double argument is held as   *)
(* the exact rational n / d, d # 0; the rounding error of the long double  *)
(* product and quotient themselves is not modelled.                        *)

RatNum(n, d) == IF d < 0 THEN -n ELSE n

RatDen(d) == MathAbs(d)

\* static_cast<int64_t>(value) truncates toward zero
RatTrunc(n, d) == TruncDiv(RatNum(n, d), RatDen(d))

Floor(n, d) ==
  IF RatTrunc(n, d) * RatDen(d) <= RatNum(n, d)
  THEN RatTrunc(n, d) ELSE RatTrunc(n, d) - 1

Ceil(n, d) ==
  IF RatTrunc(n, d) * RatDen(d) >= RatNum(n, d)
  THEN RatTrunc(n, d) ELSE RatTrunc(n, d) + 1

NullRoundPolicy_Round(n, d) == RatTrunc(n, d)

\* static_cast<int64_t>(value + (value < 0 ? -0.5 : 0.5))
DefRoundPolicy_Round(n, d) ==
  IF RatNum(n, d) < 0
  THEN TruncDiv(2 * RatNum(n, d) - RatDen(d), 2 * RatDen(d))
  ELSE TruncDiv(2 * RatNum(n, d) + RatDen(d), 2 * RatDen(d))

\* twice the numerator of `decimals` over RatDen(d), to compare with 0.5
DecimalsAbove(n, d) == 2 * (RatNum(n, d) - Floor(n, d) * RatDen(d))

DecimalsBelow(n, d) == 2 * (Ceil(n, d) * RatDen(d) - RatNum(n, d))

HalfDownRoundPolicy_Round(n, d) ==
  IF RatNum(n, d) >= 0
  THEN IF DecimalsAbove(n, d) > RatDen(d) THEN Ceil(n, d) ELSE Floor(n, d)
  ELSE IF DecimalsBelow(n, d) < RatDen(d) THEN Ceil(n, d) ELSE Floor(n, d)

HalfUpRoundPolicy_Round(n, d) ==
  IF RatNum(n, d) >= 0
  THEN IF DecimalsAbove(n, d) >= RatDen(d) THEN Ceil(n, d) ELSE Floor(n, d)
  ELSE IF DecimalsBelow(n, d) <= RatDen(d) THEN Ceil(n, d) ELSE Floor(n, d)

HalfEvenRoundPolicy_Round(n, d) ==
  IF RatNum(n, d) >= 0
  THEN IF DecimalsAbove(n, d) > RatDen(d) THEN Ceil(n, d)
       ELSE IF DecimalsAbove(n, d) < RatDen(d) THEN Floor(n, d)
       ELSE IF Floor(n, d) % 2 = 0 THEN Floor(n, d) ELSE Ceil(n, d)
  ELSE IF DecimalsBelow(n, d) > RatDen(d) THEN Floor(n, d)
       ELSE IF DecimalsBelow(n, d) < RatDen(d) THEN Ceil(n, d)
       ELSE IF Ceil(n, d) % 2 = 0 THEN Ceil(n, d) ELSE Floor(n, d)

CeilingRoundPolicy_Round(n, d) == Ceil(n, d)

FloorRoundPolicy_Round(n, d) == Floor(n, d)

RoundUpRoundPolicy_Round(n, d) ==
  IF RatNum(n, d) >= 0 THEN Ceil(n, d) ELSE Floor(n, d)

Round(policy, n, d) ==
  CASE policy = "Null" -> NullRoundPolicy_Round(n, d)
    [] policy = "RoundDown" -> NullRoundPolicy_Round(n, d)
    [] policy = "Def" -> DefRoundPolicy_Round(n, d)
    [] policy = "HalfDown" -> HalfDownRoundPolicy_Round(n, d)
    [] policy = "HalfUp" -> HalfUpRoundPolicy_Round(n, d)
    [] policy = "HalfEven" -> HalfEvenRoundPolicy_Round(n, d)
    [] policy = "Ceiling" -> CeilingRoundPolicy_Round(n, d)
    [] policy = "Floor" -> FloorRoundPolicy_Round(n, d)
    [] policy = "RoundUp" -> RoundUpRoundPolicy_Round(n, d)

----------------------------------------------------------------------------
(* MultDiv *)

IsMultOverflowPositive(value1, value2) ==
  value1 > kMaxInt64 \div value2 /\ value2 > kMaxInt64 \div value1

IsMultOverflow(value1, value2) ==
  IF value1 = 0 \/ value2 = 0 THEN FALSE
  ELSE IF (value1 < 0) # (value2 < 0)
  THEN IF value1 = kMinInt64 THEN value2 > 1
       ELSE IF value2 = kMinInt64 THEN value1 > 1
       ELSE IF value1 < 0 THEN IsMultOverflowPositive(-value1, value2)
       ELSE IsMultOverflowPositive(value1, -value2)
  ELSE IF value1 < 0 /\ value2 < 0
  THEN IF value1 = kMinInt64 THEN value2 < -1
       ELSE IF value2 = kMinInt64 THEN value1 < -1
       ELSE IsMultOverflowPositive(-value1, -value2)
  ELSE IsMultOverflowPositive(value1, value2)

\* std::gcd of the absolute values
RECURSIVE Gcd(_, _)
Gcd(m, n) == IF n = 0 THEN MathAbs(m) ELSE Gcd(MathAbs(n), MathAbs(m) % MathAbs(n))

\* the output of a DivRounded as a machine value
AsValue(r) == [v |-> r.v, ub |-> r.ub, fault |-> r.fault]

\* e, computed after the machine values `used` were
Via(e, used) ==
  [v |-> e.v,
   ub |-> e.ub \/ (\E u \in used : u.ub),
   fault |-> e.fault \/ (\E u \in used : u.fault)]

\* result = (value1 * value2) / divisor
MultDiv(policy, value1, value2, divisor) ==
  LET value1int == Div64(I64(value1), I64(divisor))
      value1dec == Mod64(I64(value1), I64(divisor))
      value2int == Div64(I64(value2), I64(divisor))
      value2dec == Mod64(I64(value2), I64(divisor))
      result == Add64(Mul64(I64(value1), value2int),
                      Mul64(value1int, value2dec))
      \* first attempt
      res_dec_part == Mul64(value1dec, value2dec)
      first == DivRounded(policy, res_dec_part.v, divisor)
      \* reduce value1 & divisor, then value2 & divisor
      c1 == Gcd(value1dec.v, divisor)
      value1red == IF c1 # 1 THEN TruncDiv(value1dec.v, c1) ELSE value1dec.v
      divisor1 == IF c1 # 1 THEN TruncDiv(divisor, c1) ELSE divisor
      c2 == Gcd(value2dec.v, divisor1)
      value2red == IF c2 # 1 THEN TruncDiv(value2dec.v, c2) ELSE value2dec.v
      divisor2 == IF c2 # 1 THEN TruncDiv(divisor1, c2) ELSE divisor1
      \* std::gcd is undefined when |divisor| is not representable
      gcd == [v |-> c2, ub |-> divisor = kMinInt64, fault |-> FALSE]
      res_red == Mul64(I64(value1red), I64(value2red))
      second == DivRounded(policy, res_red.v, divisor2)
      \* the less precise version
      rounded == Round(policy, value1red * value2red, divisor2)
      real == [v |-> Wrap(rounded), ub |-> ~Fits(rounded), fault |-> FALSE]
  IN  IF divisor = 0 THEN [v |-> 0, ub |-> FALSE, fault |-> TRUE]
      ELSE IF value1dec.v = 0 \/ value2dec.v = 0
      THEN Via(result, {value1dec, value2dec})
      ELSE IF ~IsMultOverflow(value1dec.v, value2dec.v)
      THEN IF first.ok
           THEN Add64(result, Via(AsValue(first), {res_dec_part}))
           ELSE Add64(result, Via(I64(0), {AsValue(first), res_dec_part}))
      ELSE IF ~IsMultOverflow(value1red, value2red) /\ second.ok
      THEN Add64(result, Via(AsValue(second), {gcd, res_red}))
      ELSE IF ~IsMultOverflow(value1red, value2red)
      THEN Add64(result, Via(real, {gcd, res_red, AsValue(second)}))
      ELSE Add64(result, Via(real, {gcd}))

----------------------------------------------------------------------------
(* Decimal<Prec, RoundPolicy>: operations on the mantissa value_ *)

\* Pow10 throws std::runtime_error outside 0..kMaxDecimalDigits
Pow10Throws(exp) == exp < 0 \/ exp > kMaxDecimalDigits

\* operator*=(Decimal rhs)
MulAssign(pol, Prec, value, rhs_value) ==
  MultDiv(pol, value, rhs_value, Pow10(Prec))

\* a division that yields zero for a zero divisor instead of dividing
DivAssign_ZeroGuarded(pol, Prec, value, rhs_value) ==
  IF rhs_value = 0 THEN I64(0)
  ELSE MultDiv(pol, value, Pow10(Prec), rhs_value)

\* operator/=(Decimal rhs)
DivAssign(pol, Prec, value, rhs_value) ==
  MultDiv(pol, value, Pow10(Prec), rhs_value)

\* Sign(): one of -1, 0, +1
Sign(value) == IF value > 0 THEN 1 ELSE IF value < 0 THEN -1 ELSE 0

\* Abs(): FromUnbiased(impl::Abs(value_))
DecimalAbs(value) == Abs(I64(value))

\* operator==(Decimal rhs), operator<(Decimal rhs), operator>(Decimal rhs)
Equal(value, rhs_value) == value = rhs_value
Less(value, rhs_value) == value < rhs_value
Greater(value, rhs_value) == value > rhs_value

\* operator*=(T rhs): value_ *= rhs
MulAssignInt(value, rhs_int) == Mul64(I64(value), I64(rhs_int))

\* operator/=(T rhs): DivRounded writes its output to value_ before MultDiv
\* reads value_
DivAssignInt(pol, value, rhs_int) ==
  LET r == DivRounded(pol, value, rhs_int)
  IN  IF r.ok THEN AsValue(r)
      ELSE Via(MultDiv(pol, r.v, 1, rhs_int), {AsValue(r)})

\* FromBiased(original_unbiased, original_precision), Pow10 not throwing
FromBiased(pol, Prec, original_unbiased, original_prec) ==
  LET exponent_for_pack == Prec - original_prec
      r == DivRounded(pol, original_unbiased, Pow10(-exponent_for_pack))
  IN  IF exponent_for_pack >= 0
      THEN Mul64(I64(original_unbiased), I64(Pow10(exponent_for_pack)))
      ELSE IF r.ok THEN AsValue(r) ELSE Via(I64(0), {AsValue(r)})

\* decimal_cast<Decimal<Prec, pol>>(Decimal<OldPrec, OldRound> arg)
decimal_cast(pol, Prec, arg_value, OldPrec) ==
  FromBiased(pol, Prec, arg_value, OldPrec)

\* FromIntegerImpl(value): static_cast<int64_t>(value) * kDecimalFactor
FromIntegerImpl(Prec, value) == Mul64(I64(value), I64(Pow10(Prec)))

\* what operator=, operator+= and operator-= of a Decimal<Prec2> take of
\* rhs.value_: scaled up when Prec2 <= Prec, else divided by the policy, and
\* 0 when DivRounded reports failure
Rescaled(pol, Prec, rhs_value, Prec2) ==
  LET r == DivRounded(pol, rhs_value, Pow10(Prec2 - Prec))
  IN  IF Prec2 <= Prec
      THEN Mul64(I64(rhs_value), I64(Pow10(Prec - Prec2)))
      ELSE IF r.ok THEN AsValue(r) ELSE Via(I64(0), {AsValue(r)})

\* operator=(Decimal<Prec2, RoundPolicy> rhs)
AssignCross(pol, Prec, rhs_value, Prec2) ==
  Rescaled(pol, Prec, rhs_value, Prec2)

\* operator+=(Decimal<Prec2, RoundPolicy> rhs)
AddAssignCross(pol, Prec, value, rhs_value, Prec2) ==
  Add64(I64(value), Rescaled(pol, Prec, rhs_value, Prec2))

\* operator-=(Decimal<Prec2, RoundPolicy> rhs)
SubAssignCross(pol, Prec, value, rhs_value, Prec2) ==
  Sub64(I64(value), Rescaled(pol, Prec, rhs_value, Prec2))

\* operator-=(Decimal<Prec2, RoundPolicy>) chooses its branch by a plain if,
\* not by if constexpr as operator+= does: both kPow10<Prec - Prec2> and
\* kPow10<Prec2 - Prec> are instantiated, and kPow10 of a negative exponent
\* is no constant expression (Pow10 throws), so the instantiation is
\* ill-formed unless Prec2 = Prec
SubAssignCrossCompiles(Prec, Prec2) ==
  ~Pow10Throws(Prec - Prec2) /\ ~Pow10Throws(Prec2 - Prec)

ToInteger(pol, Prec, value) ==
  LET r == DivRounded(pol, value, Pow10(Prec))
  IN  IF r.ok THEN AsValue(r) ELSE Via(I64(0), {AsValue(r)})

----------------------------------------------------------------------------
(* Text.  A string is a sequence of characters; the characters are one-    *)
(* character strings.  '\0' is what a CharSequence returns at its end and  *)
(* is no character of a text.                                              *)

DigitChars == <<"0", "1", "2", "3", "4", "5", "6", "7", "8", "9">>

IsDigit(c) == \E i \in 1..10 : DigitChars[i] = c

\* c - '0'
DigitValue(c) == (CHOOSE i \in 1..10 : DigitChars[i] = c) - 1

\* '\v', which has no escape here
kVerticalTab == "VT"

IsSpace(c) == c \in {" ", "\t", "\r", "\n", kVerticalTab}

\* CharT{'\0'}
kNul == "NUL"

\* StringCharSequence::Get, current the index of current_: on sequence end,
\* returns '\0'
Get(input, current) ==
  IF current > Len(input) THEN kNul ELSE input[current]

kAllowSpaces == "kAllowSpaces"

kAllowTrailingJunk == "kAllowTrailingJunk"

kAllowBoundaryDot == "kAllowBoundaryDot"

kAllowRounding == "kAllowRounding"

\* ParseOptions::kNone
kNone == {}

NoError == "none"

----------------------------------------------------------------------------
(* ParseUnpacked: the locals of the function, `current` the index of the   *)
(* character the next Get() returns.                                       *)

ParseUnpackedStart ==
  [before |-> 0, after |-> 0, is_negative |-> FALSE, position |-> -1,
   state |-> "kSign", error |-> NoError, before_digit_count |-> 0,
   after_digit_count |-> 0, current |-> 1]

\* BeforeDec without the cap on the integer digits
BeforeDec_NoCap(ps, c) ==
  IF IsDigit(c)
  THEN [ps EXCEPT !.before = 10 * ps.before + DigitValue(c),
                  !.before_digit_count = ps.before_digit_count + 1]
  ELSE IF c = "." THEN [ps EXCEPT !.state = "kAfterDec"]
  ELSE [ps EXCEPT !.state = "kEnd"]

\* case ParseState::kBeforeDec
BeforeDec(ps, c) ==
  IF IsDigit(c)
  THEN IF ps.before_digit_count < kMaxDecimalDigits
       THEN [ps EXCEPT !.before = 10 * ps.before + DigitValue(c),
                       !.before_digit_count = ps.before_digit_count + 1]
       ELSE IF ps.error = NoError
       THEN [ps EXCEPT !.error = "kOverflow"]
       ELSE ps
  ELSE IF c = "." THEN [ps EXCEPT !.state = "kAfterDec"]
  ELSE [ps EXCEPT !.state = "kEnd"]

\* AfterDec that takes a dot without digits after it
AfterDec_AnyDot(ps, c, options) ==
  IF IsDigit(c)
  THEN IF ps.after_digit_count < kMaxDecimalDigits
       THEN [ps EXCEPT !.after = 10 * ps.after + DigitValue(c),
                       !.after_digit_count = ps.after_digit_count + 1]
       ELSE [ps EXCEPT
               !.error = IF kAllowRounding \notin options
                            /\ ps.error = NoError
                         THEN "kRounding" ELSE ps.error,
               !.state = "kIgnoringAfterDec",
               !.after = IF DigitValue(c) >= 5
                         THEN ps.after + 1 ELSE ps.after]
  ELSE [ps EXCEPT !.state = "kEnd"]

\* case ParseState::kAfterDec
AfterDec(ps, c, options) ==
  IF IsDigit(c)
  THEN IF ps.after_digit_count < kMaxDecimalDigits
       THEN [ps EXCEPT !.after = 10 * ps.after + DigitValue(c),
                       !.after_digit_count = ps.after_digit_count + 1]
       ELSE [ps EXCEPT
               !.error = IF kAllowRounding \notin options
                            /\ ps.error = NoError
                         THEN "kRounding" ELSE ps.error,
               !.state = "kIgnoringAfterDec",
               \* round half up
               !.after = IF DigitValue(c) >= 5
                         THEN ps.after + 1 ELSE ps.after]
  ELSE [ps EXCEPT
          !.error = IF kAllowBoundaryDot \notin options
                       /\ ps.after_digit_count = 0
                       /\ ps.error = NoError
                    THEN "kBoundaryDot" ELSE ps.error,
          !.state = "kEnd"]

\* a kLeadingZeros case that counts every zero as a digit of the integer part
LeadingZeros_Counted(ps, c) ==
  IF c = "0"
  THEN [ps EXCEPT !.before_digit_count = ps.before_digit_count + 1,
                  !.error = IF ps.before_digit_count + 1 > kMaxDecimalDigits
                            THEN "kOverflow" ELSE ps.error]
  ELSE IF IsDigit(c)
  THEN [ps EXCEPT !.state = "kBeforeDec", !.before = DigitValue(c),
                  !.before_digit_count = ps.before_digit_count + 1,
                  !.error = IF ps.before_digit_count + 1 > kMaxDecimalDigits
                            THEN "kOverflow" ELSE ps.error]
  ELSE IF c = "." THEN [ps EXCEPT !.state = "kAfterDec"]
  ELSE [ps EXCEPT !.state = "kEnd"]

\* case ParseState::kLeadingZeros
LeadingZeros(ps, c) ==
  IF c = "0" THEN ps
  ELSE IF IsDigit(c)
  THEN [ps EXCEPT !.state = "kBeforeDec", !.before = DigitValue(c)]
  ELSE IF c = "." THEN [ps EXCEPT !.state = "kAfterDec"]
  ELSE [ps EXCEPT !.state = "kEnd"]

\* the switch on the state, for the character c just read
SwitchState(ps, c, options) ==
  CASE ps.state = "kSign" ->
         IF c = "-"
         THEN [ps EXCEPT !.is_negative = TRUE, !.state = "kBeforeFirstDig"]
         ELSE IF c = "+" THEN [ps EXCEPT !.state = "kBeforeFirstDig"]
         ELSE IF c = "0"
         THEN [ps EXCEPT !.state = "kLeadingZeros", !.before_digit_count = 1]
         ELSE IF IsDigit(c)
         THEN [ps EXCEPT !.state = "kBeforeDec", !.before = DigitValue(c),
                         !.before_digit_count = 1]
         ELSE IF c = "."
         THEN [ps EXCEPT !.state = "kAfterDec",
                         !.error = IF kAllowBoundaryDot \notin options
                                      /\ ps.error = NoError
                                   THEN "kBoundaryDot" ELSE ps.error]
         ELSE IF IsSpace(c)
         THEN IF kAllowSpaces \notin options
              THEN [ps EXCEPT !.state = "kEnd", !.error = "kSpace"]
              ELSE ps
         ELSE [ps EXCEPT !.state = "kEnd", !.error = "kWrongChar"]
    [] ps.state = "kBeforeFirstDig" ->
         IF c = "0"
         THEN [ps EXCEPT !.state = "kLeadingZeros", !.before_digit_count = 1]
         ELSE IF IsDigit(c)
         THEN [ps EXCEPT !.state = "kBeforeDec", !.before = DigitValue(c),
                         !.before_digit_count = 1]
         ELSE IF c = "."
         THEN [ps EXCEPT !.state = "kAfterDec",
                         !.error = IF kAllowBoundaryDot \notin options
                                      /\ ps.error = NoError
                                   THEN "kBoundaryDot" ELSE ps.error]
         ELSE [ps EXCEPT !.state = "kEnd", !.error = "kWrongChar"]
    [] ps.state = "kLeadingZeros" -> LeadingZeros(ps, c)
    [] ps.state = "kBeforeDec" -> BeforeDec(ps, c)
    [] ps.state = "kAfterDec" -> AfterDec(ps, c, options)
    [] ps.state = "kIgnoringAfterDec" ->
         IF IsDigit(c) THEN ps ELSE [ps EXCEPT !.state = "kEnd"]

\* a turn of the loop that advances position also after an error
LoopStep_PositionAdvances(ps, input, options) ==
  SwitchState([ps EXCEPT !.current = ps.current + 1,
                         !.position = ps.position + 1],
              Get(input, ps.current), options)

\* one turn of the while loop with a character to read: Get(), ++position
\* unless an error is recorded, the switch
LoopStep(ps, input, options) ==
  SwitchState([ps EXCEPT !.current = ps.current + 1,
                         !.position = IF ps.error = NoError
                                      THEN ps.position + 1 ELSE ps.position],
              Get(input, ps.current), options)

\* while (state != ParseState::kEnd) { c = input.Get(); if (c == '\0') break;
RECURSIVE MainLoop(_, _, _)
MainLoop(ps, input, options) ==
  IF ps.state = "kEnd" \/ Get(input, ps.current) = kNul THEN ps
  ELSE MainLoop(LoopStep(ps, input, options), input, options)

\* the scan of what follows the number
RECURSIVE TrailingScan(_, _)
TrailingScan(ps, input) ==
  IF Get(input, ps.current) = kNul THEN ps
  ELSE IF ~IsSpace(Get(input, ps.current))
  THEN [ps EXCEPT !.position = ps.position + 1, !.error = "kTrailingJunk"]
  ELSE TrailingScan([ps EXCEPT !.current = ps.current + 1,
                               !.position = ps.position + 1], input)

\* AfterLoop without the scan of what follows the number
AfterLoop_NoScan(ps, input, options) ==
  IF ps.state # "kEnd" THEN ps
  ELSE IF ps.error = NoError /\ kAllowTrailingJunk \notin options
  THEN [ps EXCEPT !.current = ps.current - 1,
                  !.error = IF kAllowSpaces \notin options
                            THEN "kSpace" ELSE ps.error,
                  !.position = ps.position - 1]
  ELSE [ps EXCEPT !.current = ps.current - 1]

\* if (state == ParseState::kEnd) { input.Unget(); ...
AfterLoop(ps, input, options) ==
  IF ps.state # "kEnd" THEN ps
  ELSE IF ps.error = NoError /\ kAllowTrailingJunk \notin options
  THEN TrailingScan(
         [ps EXCEPT !.current = ps.current - 1,
                    !.error = IF kAllowSpaces \notin options
                              THEN "kSpace" ELSE ps.error,
                    !.position = ps.position - 1], input)
  ELSE [ps EXCEPT !.current = ps.current - 1]

\* FinalChecks without the check of the digit counts
FinalChecks_AnyDigitCount(ps, options) ==
  IF ps.error = NoError /\ ps.state = "kAfterDec"
     /\ kAllowBoundaryDot \notin options
     /\ ps.after_digit_count = 0
  THEN [ps EXCEPT !.error = "kBoundaryDot"]
  ELSE ps

FinalChecks(ps, options) ==
  LET nodigits ==
        IF ps.error = NoError /\ ps.before_digit_count = 0
           /\ ps.after_digit_count = 0
        THEN [ps EXCEPT !.error = "kNoDigits"] ELSE ps
  IN  IF nodigits.error = NoError /\ nodigits.state = "kAfterDec"
         /\ kAllowBoundaryDot \notin options
         /\ nodigits.after_digit_count = 0
      THEN [nodigits EXCEPT !.error = "kBoundaryDot"]
      ELSE nodigits

\* static_cast<uint32_t>(position) wraps at 2^32; the width is scaled like
\* the word's
kUint32Modulus == 2^(WordBits + 6)

\* the locals of ParseUnpacked at its return statement
ParseUnpackedEnd(input, options) ==
  FinalChecks(AfterLoop(MainLoop(ParseUnpackedStart, input, options),
                        input, options), options)

\* the ParseUnpackedResult
ParseUnpacked(input, options) ==
  LET ps == ParseUnpackedEnd(input, options)
  IN  [before |-> ps.before, after |-> ps.after,
       decimal_digits |-> ps.after_digit_count,
       is_negative |-> ps.is_negative, error |-> ps.error,
       error_position |-> ps.position % kUint32Modulus]

----------------------------------------------------------------------------
(* FromUnpacked and Parse *)

\* FromUnpacked with the Prec = 0 branch taken at every Prec
FromUnpacked2_DropsAfter(Prec, before, after) ==
  Via(Mul64(before, I64(Pow10(Prec))), {after})

\* FromUnpacked<Prec, RoundPolicy>(before, after)
FromUnpacked2(Prec, before, after) ==
  IF Prec > 0
  THEN Add64(Mul64(before, I64(Pow10(Prec))), after)
  ELSE Via(Mul64(before, I64(Pow10(Prec))), {after})

\* FromUnpacked<Prec, RoundPolicy>(before, after, original_precision)
FromUnpacked(pol, Prec, before, after, original_prec) ==
  LET rounded_after == DivRounded(pol, after.v, Pow10(original_prec - Prec))
  IN  IF original_prec <= Prec
      THEN \* direct mode
           FromUnpacked2(Prec, before,
                         Mul64(after, I64(Pow10(Prec - original_prec))))
      ELSE \* rounding mode
           IF ~rounded_after.ok
           THEN Via(Mul64(I64(0), I64(Pow10(Prec))),
                    {before, after, AsValue(rounded_after)})
           ELSE FromUnpacked2(Prec, before,
                              Via(AsValue(rounded_after), {after}))

\* the UASSERTs of FromUnpacked(before, after) hold
FromUnpacked2Asserted(Prec, before, after) ==
  /\ (before >= 0 /\ after >= 0) \/ (before <= 0 /\ after <= 0)
  /\ after > -Pow10(Prec) /\ after < Pow10(Prec)

\* the UASSERTs on the way through FromUnpacked(before, after,
\* original_precision) hold
FromUnpackedAsserted(pol, Prec, before, after, original_prec) ==
  LET rounded_after == DivRounded(pol, after, Pow10(original_prec - Prec))
  IN  /\ (before >= 0 /\ after >= 0) \/ (before <= 0 /\ after <= 0)
      /\ after > -Pow10(original_prec) /\ after < Pow10(original_prec)
      /\ IF original_prec <= Prec
         THEN FromUnpacked2Asserted(Prec, before,
                                    after * Pow10(Prec - original_prec))
         ELSE rounded_after.ok
                => FromUnpacked2Asserted(Prec, before, rounded_after.v)

NoDecimal == I64(0)

\* impl::Parse<Prec, RoundPolicy>(input, options): the ParseResult, and
\* whether the UASSERTs on the way held
Parse(pol, Prec, input, options) ==
  LET parsed == ParseUnpacked(input, options)
      before == IF parsed.is_negative THEN Neg64(I64(parsed.before))
                ELSE I64(parsed.before)
      after == IF parsed.is_negative THEN Neg64(I64(parsed.after))
               ELSE I64(parsed.after)
  IN  IF parsed.error # NoError
      THEN [decimal |-> NoDecimal, error |-> parsed.error,
            error_position |-> parsed.error_position, asserted |-> TRUE]
      ELSE IF parsed.before >= kMaxInt64 \div Pow10(Prec)
      THEN [decimal |-> NoDecimal, error |-> "kOverflow",
            error_position |-> 0, asserted |-> TRUE]
      ELSE IF kAllowRounding \notin options /\ parsed.decimal_digits > Prec
      THEN [decimal |-> NoDecimal, error |-> "kRounding",
            error_position |-> 0, asserted |-> TRUE]
      ELSE [decimal |-> FromUnpacked(pol, Prec, before, after,
                                     parsed.decimal_digits),
            error |-> NoError, error_position |-> 0,
            asserted |-> FromUnpackedAsserted(pol, Prec, before.v, after.v,
                                              parsed.decimal_digits)]

\* the options of Decimal::FromStringPermissive
PermissiveOptions == {kAllowSpaces, kAllowBoundaryDot, kAllowRounding}

----------------------------------------------------------------------------
(* Formatting *)

\* fmt's "{}" of a non-negative integer
RECURSIVE FormatNat(_)
FormatNat(n) ==
  IF n < 10 THEN <<DigitChars[n + 1]>>
  ELSE FormatNat(n \div 10) \o <<DigitChars[(n % 10) + 1]>>

\* fmt's "{}" of an int64_t
FormatInt(n) == IF n < 0 THEN <<"-">> \o FormatNat(-n) ELSE FormatNat(n)

RECURSIVE Zeros(_)
Zeros(k) == IF k <= 0 THEN <<>> ELSE <<"0">> \o Zeros(k - 1)

\* the digits without the padding
FormatPadded_Unpadded(n, width) == FormatNat(n)

\* fmt's "{:0{}}" of a non-negative integer: zero-padded to the width
FormatPadded(n, width) ==
  Zeros(width - Len(FormatNat(n))) \o FormatNat(n)

\* one step of TrimTrailingZeros: if (after % kPow10<k> == 0) { ... }
TrimStep(t, enabled, k) ==
  IF enabled /\ t.after % Pow10(k) = 0
  THEN [after |-> TruncDiv(t.after, Pow10(k)), n_trimmed |-> t.n_trimmed + k]
  ELSE t

\* TrimTrailingZeros<Prec>(after): after as left, and the number trimmed
TrimTrailingZeros(Prec, after) ==
  IF Prec = 0 THEN [after |-> after, n_trimmed |-> 0]
  ELSE IF after = 0 THEN [after |-> after, n_trimmed |-> Prec]
  ELSE TrimStep(TrimStep(TrimStep(TrimStep(TrimStep(
         [after |-> after, n_trimmed |-> 0],
         Prec >= 17, 16), Prec >= 9, 8), Prec >= 5, 4), Prec >= 3, 2),
         TRUE, 1)

\* AsUnpacked(dec)
AsUnpacked(Prec, value) ==
  [before |-> TruncDiv(value, Pow10(Prec)),
   after |-> value - Pow10(Prec) * TruncDiv(value, Pow10(Prec))]

\* fmt::formatter<Decimal>::format
Format(Prec, value, remove_trailing_zeros) ==
  LET unpacked == AsUnpacked(Prec, value)
      trimmed == IF remove_trailing_zeros
                 THEN TrimTrailingZeros(Prec, unpacked.after)
                 ELSE [after |-> unpacked.after, n_trimmed |-> 0]
      after_digits == Prec - trimmed.n_trimmed
  IN  IF after_digits > 0
      THEN IF value < 0
           THEN <<"-">> \o FormatInt(-unpacked.before) \o <<".">>
                \o FormatPadded(-trimmed.after, after_digits)
           ELSE FormatInt(unpacked.before) \o <<".">>
                \o FormatPadded(trimmed.after, after_digits)
      ELSE FormatInt(unpacked.before)

\* Decimal::ToString (ToString itself is an operator of the TLC module)
DecimalToString(Prec, value) == Format(Prec, value, TRUE)

ToStringTrailingZeros(Prec, value) == Format(Prec, value, FALSE)

----------------------------------------------------------------------------
(* The state: one Decimal<prec, policy> object and the operation applied   *)
(* to it.                                                                  *)

VARIABLES
  prec,            \* Prec of the Decimal type
  policy,          \* RoundPolicy of the Decimal type
  value_,          \* the mantissa of the Decimal object
  a,               \* first input of the operation (the mantissa before it)
  b,               \* second input: a mantissa, an integer or a precision
  op,              \* the operation applied, "none" before any
  status,          \* how it ended: "value", "fault", "trap", "throw", "abort",
                   \* "error" (an error code returned), "ill-formed" (the
                   \* call does not compile)
  ub,              \* whether it overflowed the signed word on the way
  ok,              \* what DivRounded returned
  result,          \* the integer it returned or wrote to its output
  text,            \* the string formatted, or the string to parse
  error,           \* the ParseErrorCode of the ParseError thrown, or NoError
  error_position,  \* the error_position of the ParseResult
  parse_options,   \* the ParseOptions of the call
  unpacked_result, \* the ParseUnpackedResult returned
  stream,          \* the std::istream read: its flag skipws, its state bits
                   \* failbit and eofbit, pos the characters of text extracted
  trimmed,         \* what TrimTrailingZeros left in after, and returned
  prec2,           \* Prec2 of the other Decimal type of a mixed operation
  parse_state      \* the locals of a ParseUnpacked under way

vars == <<prec, policy, value_, a, b, op, status, ub, ok, result, text, error,
          error_position, parse_options, unpacked_result, stream, trimmed,
          prec2, parse_state>>

\* what the operations on decimals leave alone
parse_vars ==
  <<parse_options, unpacked_result, stream, trimmed, prec2, parse_state>>

\* How an operation that computed the machine value r can end.  Division by
\* zero is a runtime fault.  Signed overflow is undefined: the build either
\* goes on with the wrapped bits or traps.
Outcomes(r) ==
  IF r.fault THEN {[status |-> "fault", v |-> 0]}
  ELSE IF r.ub THEN {[status |-> "value", v |-> r.v],
                     [status |-> "trap", v |-> 0]}
  ELSE {[status |-> "value", v |-> r.v]}

\* the operation named o, which computed r, assigns value_
Assigns(o, r) ==
  /\ op' = o
  /\ ub' = r.ub
  /\ \E out \in Outcomes(r) :
       /\ status' = out.status
       /\ value_' = IF out.status = "value" THEN out.v ELSE value_
  /\ UNCHANGED <<prec, policy, a, b, ok, result, text, error, error_position>>
  /\ UNCHANGED parse_vars

\* the operation named o, which computed r, returns an integer
Returns(o, r, returned) ==
  /\ op' = o
  /\ ub' = r.ub
  /\ ok' = returned
  /\ \E out \in Outcomes(r) :
       /\ status' = out.status
       /\ result' = out.v
  /\ UNCHANGED <<prec, policy, value_, a, b, text, error, error_position>>
  /\ UNCHANGED parse_vars

\* a sample of the word: the extremes, the powers of ten and their
\* neighbours and halves, small values, both signs
Operands ==
  LET pos == {1, 2, 3, 5, 9, 10, 11, 15, 25, 45, 50, 55, 99, 100, 101, 150,
              250, 333, 500}
  IN  pos \cup {-x : x \in pos}
      \cup {0, kMaxInt64, kMaxInt64 - 1, kMinInt64, kMinInt64 + 1}

CallDivRounded ==
  /\ op = "none"
  /\ LET r == DivRounded(policy, a, b)
     IN  Returns("DivRounded", AsValue(r), r.ok)

CallMulAssign ==
  /\ op = "none"
  /\ Assigns("MulAssign", MulAssign(policy, prec, value_, b))

CallDivAssign ==
  /\ op = "none"
  /\ Assigns("DivAssign", DivAssign(policy, prec, value_, b))

CallDivAssignInt ==
  /\ op = "none"
  /\ Assigns("DivAssignInt", DivAssignInt(policy, value_, b))

CallToInteger ==
  /\ op = "none"
  /\ Returns("ToInteger", ToInteger(policy, prec, value_), TRUE)

\* decimal_cast of the Decimal<b, policy> holding a to Decimal<prec, policy>
CallDecimalCast ==
  /\ op = "none"
  /\ b \in Precisions
  /\ Assigns("decimal_cast", decimal_cast(policy, prec, a, b))

\* a default-constructed ParseUnpackedResult
NoParsed ==
  [before |-> 0, after |-> 0, decimal_digits |-> 0, is_negative |-> FALSE,
   error |-> NoError, error_position |-> 0]

\* a stream in good state with nothing extracted
GoodStream(skipws) ==
  [skipws |-> skipws, failbit |-> FALSE, eofbit |-> FALSE, pos |-> 0]

InitCommon ==
  /\ unpacked_result = NoParsed
  /\ trimmed = [after |-> 0, n_trimmed |-> 0]
  /\ prec2 = 0
  /\ parse_state = ParseUnpackedStart
  /\ stream \in {GoodStream(TRUE)}
  /\ op = "none"
  /\ status = "value"
  /\ ub = FALSE
  /\ ok = TRUE
  /\ result = 0
  /\ value_ = a
  /\ error = NoError
  /\ error_position = 0

\* DivRounded on every numerator and a sample of divisors
InitDivRounded ==
  /\ policy \in RoundPolicies
  /\ parse_options = kNone
  /\ prec = 0
  /\ text = <<>>
  /\ a \in Int64
  /\ b \in {kMinInt64, -100, -10, -3, -2, -1, 1, 2, 3, 4, 6, 10, 100,
            kMaxInt64}
  /\ InitCommon

SpecDivRounded == InitDivRounded /\ [][CallDivRounded]_vars

\* arithmetic of decimals on a sample of mantissas
InitArith ==
  /\ policy \in RoundPolicies
  /\ parse_options = kNone
  /\ prec \in Precisions
  /\ text = <<>>
  /\ a \in Operands
  /\ b \in Operands
  /\ InitCommon

NextArith ==
  \/ CallMulAssign
  \/ CallDivAssign
  \/ CallDivAssignInt
  \/ CallToInteger
  \/ CallDecimalCast

SpecArith == InitArith /\ [][NextArith]_vars

\* value_ += rhs, rhs the Decimal<prec2, policy> of mantissa b
CallAddAssignCross ==
  /\ op = "none"
  /\ Assigns("operator+=", AddAssignCross(policy, prec, value_, b, prec2))

\* value_ -= rhs; a program that instantiates an ill-formed operator-= does
\* not build
CallSubAssignCross ==
  /\ op = "none"
  /\ IF SubAssignCrossCompiles(prec, prec2)
     THEN Assigns("operator-=",
                  SubAssignCross(policy, prec, value_, b, prec2))
     ELSE /\ op' = "operator-="
          /\ status' = "ill-formed"
          /\ UNCHANGED <<prec, policy, value_, a, b, ub, ok, result, text,
                         error, error_position>>
          /\ UNCHANGED parse_vars

\* Decimal<prec2, policy>(b), b an integer: result is its mantissa
CallFromInteger ==
  /\ op = "none"
  /\ Returns("Decimal(int)", FromIntegerImpl(prec2, b), TRUE)

\* the Decimal<prec2, policy> just constructed is assigned to the
\* Decimal<prec, policy>
CallAssignCross ==
  /\ op = "Decimal(int)"
  /\ status = "value"
  /\ Assigns("operator=",
             Via(AssignCross(policy, prec, result, prec2),
                 {[v |-> result, ub |-> ub, fault |-> FALSE]}))

\* decimals of two precisions, on a sample of mantissas
InitCross ==
  /\ policy \in RoundPolicies
  /\ parse_options = kNone
  /\ prec \in Precisions
  /\ text = <<>>
  /\ a \in Operands
  /\ b \in Operands
  /\ unpacked_result = NoParsed
  /\ trimmed = [after |-> 0, n_trimmed |-> 0]
  /\ prec2 \in Precisions
  /\ parse_state = ParseUnpackedStart
  /\ stream = GoodStream(TRUE)
  /\ op = "none"
  /\ status = "value"
  /\ ub = FALSE
  /\ ok = TRUE
  /\ result = 0
  /\ value_ = a
  /\ error = NoError
  /\ error_position = 0

NextCross ==
  \/ CallAddAssignCross
  \/ CallSubAssignCross
  \/ CallFromInteger
  \/ CallAssignCross

SpecCross == InitCross /\ [][NextCross]_vars

\* value_ *= b, b an integer
CallMulAssignInt ==
  /\ op = "none"
  /\ Assigns("operator*=", MulAssignInt(value_, b))

\* value_ /= b on the product just computed
CallDivAssignIntOfProduct ==
  /\ op = "operator*="
  /\ status = "value"
  /\ Assigns("operator/=",
             Via(DivAssignInt(policy, value_, b),
                 {[v |-> value_, ub |-> ub, fault |-> FALSE]}))

\* d.Sign(), and Abs(d).Sign() after CallAbs
CallSign ==
  /\ op \in {"none", "Abs"}
  /\ status = "value"
  /\ Returns(IF op = "none" THEN "Sign" ELSE "Abs.Sign",
             [v |-> Sign(value_), ub |-> ub, fault |-> FALSE], TRUE)

\* value_ of the decimal d.Abs() returns
CallAbs ==
  /\ op = "none"
  /\ Assigns("Abs", DecimalAbs(value_))

\* every mantissa of the word
InitSign ==
  /\ policy \in RoundPolicies
  /\ parse_options = kNone
  /\ prec \in Precisions
  /\ text = <<>>
  /\ a \in kMinInt64..kMaxInt64
  /\ b = 0
  /\ InitCommon

NextSign ==
  \/ CallSign
  \/ CallAbs

SpecSign == InitSign /\ [][NextSign]_vars

\* IsMultOverflow(a, b): ok is the boolean returned
CallIsMultOverflow ==
  /\ op = "none"
  /\ Returns("IsMultOverflow", I64(0), IsMultOverflow(a, b))

\* the second operands of IsMultOverflow: the powers of two and their
\* neighbours, the extremes, both signs
OverflowOperands ==
  LET pos == UNION {{2^k - 1, 2^k, 2^k + 1} : k \in 0..(WordBits - 2)}
  IN  pos \cup {-x : x \in pos} \cup {kMaxInt64, kMinInt64, kMinInt64 + 1}

\* every first operand of the word against the second operands
InitOverflow ==
  /\ policy = "Def"
  /\ parse_options = kNone
  /\ prec = 0
  /\ text = <<>>
  /\ a \in kMinInt64..kMaxInt64
  /\ b \in OverflowOperands
  /\ InitCommon

NextOverflow == CallIsMultOverflow

SpecOverflow == InitOverflow /\ [][NextOverflow]_vars

\* decimal_cast<Decimal<prec2, policy>>(d), d the Decimal<prec, policy> of
\* mantissa value_, prec <= prec2: result is the mantissa of the cast
CallCastUp ==
  /\ op = "none"
  /\ prec <= prec2
  /\ Returns("decimal_cast up", decimal_cast(policy, prec2, value_, prec),
             TRUE)

\* decimal_cast<Decimal<prec, policy>> of the decimal just cast up
CallCastDown ==
  /\ op = "decimal_cast up"
  /\ status = "value"
  /\ Assigns("decimal_cast down",
             Via(decimal_cast(policy, prec, result, prec2),
                 {[v |-> result, ub |-> ub, fault |-> FALSE]}))

\* decimals of every mantissa and the precision cast to
InitCast ==
  /\ policy \in RoundPolicies
  /\ parse_options = kNone
  /\ prec \in Precisions
  /\ text = <<>>
  /\ a \in kMinInt64..kMaxInt64
  /\ b = 0
  /\ unpacked_result = NoParsed
  /\ trimmed = [after |-> 0, n_trimmed |-> 0]
  /\ prec2 \in Precisions
  /\ parse_state = ParseUnpackedStart
  /\ stream = GoodStream(TRUE)
  /\ op = "none"
  /\ status = "value"
  /\ ub = FALSE
  /\ ok = TRUE
  /\ result = 0
  /\ value_ = a
  /\ error = NoError
  /\ error_position = 0

NextCast ==
  \/ CallCastUp
  \/ CallCastDown

SpecCast == InitCast /\ [][NextCast]_vars

NextScale ==
  \/ CallMulAssignInt
  \/ CallDivAssignIntOfProduct

\* a decimal multiplied by an integer and divided by it again
SpecScale == InitArith /\ [][NextScale]_vars

\* the formatter named o writes formatted
Formats(o, formatted) ==
  /\ op = "none"
  /\ op' = o
  /\ text' = formatted
  /\ UNCHANGED <<prec, policy, value_, a, b, status, ub, ok, result, error,
                 error_position>>
  /\ UNCHANGED parse_vars

CallToString == Formats("ToString", DecimalToString(prec, value_))

CallToStringTrailingZeros ==
  Formats("ToStringTrailingZeros", ToStringTrailingZeros(prec, value_))

\* the constructor or factory named o takes the ParseResult parsed: it throws
\* ParseError on an error and yields the decimal otherwise.  A UASSERT that
\* does not hold aborts a debug build and is nothing in a release build.
Constructs(o, parsed) ==
  /\ op' = o
  /\ error' = parsed.error
  /\ error_position' = parsed.error_position
  /\ ub' = parsed.decimal.ub
  /\ IF parsed.error # NoError
     THEN status' = "throw" /\ value_' = value_
     ELSE \E out \in Outcomes(parsed.decimal)
                       \cup (IF parsed.asserted THEN {}
                             ELSE {[status |-> "abort", v |-> 0]}) :
            /\ status' = out.status
            /\ value_' = IF out.status = "value" THEN out.v ELSE value_
  /\ UNCHANGED <<prec, policy, a, b, ok, result, text>>
  /\ UNCHANGED parse_vars

\* Decimal<prec, policy>(text)
CallDecimalFromString ==
  /\ op \in {"none", "ToString", "ToStringTrailingZeros"}
  /\ Constructs("Decimal(string_view)", Parse(policy, prec, text, kNone))

\* Decimal<prec, policy>::FromStringPermissive(text)
CallFromStringPermissive ==
  /\ op = "none"
  /\ Constructs("FromStringPermissive",
                Parse(policy, prec, text, PermissiveOptions))

\* every Decimal of every precision is formatted, and the string parsed
InitRoundTrip ==
  /\ policy \in RoundPolicies
  /\ parse_options = kNone
  /\ prec \in Precisions
  /\ a \in Int64
  /\ b = 0
  /\ text = <<>>
  /\ InitCommon

NextRoundTrip ==
  \/ CallToString
  \/ CallToStringTrailingZeros
  \/ op # "none" /\ CallDecimalFromString

SpecRoundTrip == InitRoundTrip /\ [][NextRoundTrip]_vars

\* Formatting computes nothing wider than the mantissa it is given, so the
\* width of the word plays no part in it, while the steps of
\* TrimTrailingZeros depend on Prec: the decimals formatted are of the
\* precisions 0..MaxFormatPrec, with mantissas of at most MaxFormatPrec
\* digits.  MaxFormatPrec is the greatest Prec whose kPow10 the model's
\* integers hold; the step of 16 zeros (Prec >= 17) is beyond it.
MaxFormatPrec == 9

FormatPrecisions == 0..MaxFormatPrec

\* leading digits of the mantissas formatted
FormatHeads == {0, 1, 5, 12, 100, 907, 40302, 1234567}

\* the heads followed by every number of zeros, of both signs
FormatMantissas ==
  UNION {{sign * head * Pow10(k) :
            sign \in {-1, 1},
            k \in 0..(MaxFormatPrec - Len(FormatNat(head)))} :
         head \in FormatHeads}

\* impl::TrimTrailingZeros<prec>(after) on the after of AsUnpacked(value_)
CallTrimTrailingZeros ==
  /\ op = "none"
  /\ op' = "TrimTrailingZeros"
  /\ trimmed' = TrimTrailingZeros(prec, AsUnpacked(prec, value_).after)
  /\ UNCHANGED <<prec, policy, value_, a, b, status, ub, ok, result, text,
                 error, error_position, parse_options, unpacked_result,
                 stream, prec2, parse_state>>

InitFormat ==
  /\ policy = "Def"
  /\ parse_options = kNone
  /\ prec \in FormatPrecisions
  /\ a \in FormatMantissas
  /\ b = 0
  /\ text = <<>>
  /\ InitCommon

NextFormat ==
  \/ CallToString
  \/ CallToStringTrailingZeros
  \/ CallTrimTrailingZeros

SpecFormat == InitFormat /\ [][NextFormat]_vars

\* the characters of the strings parsed: signs, the dot, digits, a space, a
\* letter and '\0'
Alphabet == {"+", "-", ".", "0", "4", "5", "9", " ", "a", kNul}

MaxTextLen == 4

\* every string over the alphabet of at most MaxTextLen characters
Texts == UNION {[1..n -> Alphabet] : n \in 0..MaxTextLen}

InitText ==
  /\ policy \in RoundPolicies
  /\ parse_options = kNone
  /\ prec \in Precisions
  /\ a = 0
  /\ b = 0
  /\ text \in Texts
  /\ InitCommon

NextText ==
  \/ CallDecimalFromString
  \/ CallFromStringPermissive

SpecText == InitText /\ [][NextText]_vars

\* utils::Flags<ParseOptions>: every combination of the options
AllParseOptions ==
  SUBSET {kAllowSpaces, kAllowTrailingJunk, kAllowBoundaryDot, kAllowRounding}

\* impl::ParseUnpacked(StringCharSequence(text), parse_options)
CallParseUnpacked ==
  /\ op = "none"
  /\ op' = "ParseUnpacked"
  /\ unpacked_result' = ParseUnpacked(text, parse_options)
  /\ UNCHANGED <<prec, policy, value_, a, b, status, ub, ok, result, text,
                 error, error_position, parse_options, stream, trimmed,
                 prec2, parse_state>>

\* ParseUnpacked is no template: the Decimal type plays no part
\* the characters ParseUnpacked tells apart: signs, the dot, '0', digits
\* below and from '5', a space, a letter
UnpackAlphabet == {"+", "-", ".", "0", "4", "5", " ", "a"}

UnpackTexts == UNION {[1..n -> UnpackAlphabet] : n \in 0..MaxTextLen}

InitParseUnpacked ==
  /\ policy = "Def"
  /\ prec = 0
  /\ a = 0
  /\ b = 0
  /\ text \in UnpackTexts
  /\ parse_options \in AllParseOptions
  /\ InitCommon

SpecParseUnpacked == InitParseUnpacked /\ [][CallParseUnpacked]_vars

\* ParseUnpacked(StringCharSequence(text), parse_options) statement by
\* statement; op tells where it is: "none" before the call, "loop" in the
\* while loop, "checks" after the block that follows the loop,
\* "ParseUnpacked" once it has returned
Scans(o, ps) ==
  /\ op' = o
  /\ parse_state' = ps
  /\ UNCHANGED <<prec, policy, value_, a, b, status, ub, ok, result, text,
                 error, error_position, parse_options, stream, trimmed,
                 prec2>>

\* while (state != ParseState::kEnd) with a character to read
InLoop ==
  /\ parse_state.state # "kEnd"
  /\ Get(text, parse_state.current) # kNul

\* one turn of the loop
ScanLoopStep ==
  /\ op \in {"none", "loop"}
  /\ InLoop
  /\ Scans("loop", LoopStep(parse_state, text, parse_options))
  /\ UNCHANGED unpacked_result

\* the loop is left; if (state == ParseState::kEnd) { ... }
ScanAfterLoop ==
  /\ op \in {"none", "loop"}
  /\ ~InLoop
  /\ Scans("checks", AfterLoop(parse_state, text, parse_options))
  /\ UNCHANGED unpacked_result

\* the two checks on the digit counts, and the return statement
ScanReturn ==
  /\ op = "checks"
  /\ LET ps == FinalChecks(parse_state, parse_options)
     IN  /\ Scans("ParseUnpacked", ps)
         /\ unpacked_result' =
              [before |-> ps.before, after |-> ps.after,
               decimal_digits |-> ps.after_digit_count,
               is_negative |-> ps.is_negative, error |-> ps.error,
               error_position |-> ps.position % kUint32Modulus]

\* the characters that raise the errors of the loop: a sign, the dot, a
\* digit that rounds up, a space, a letter
ScanAlphabet == {"-", ".", "9", " ", "a"}

ScanTexts == UNION {[1..n -> ScanAlphabet] : n \in 0..MaxTextLen}

InitScan ==
  /\ policy = "Def"
  /\ prec = 0
  /\ a = 0
  /\ b = 0
  /\ text \in ScanTexts
  /\ parse_options \in AllParseOptions
  /\ InitCommon

NextScan ==
  \/ ScanLoopStep
  \/ ScanAfterLoop
  \/ ScanReturn

SpecScan == InitScan /\ [][NextScan]_vars

\* ParseUnpacked on longer texts of the characters of numbers, so that the
\* caps on the integer and the fractional digits are passed in one text
MaxNumberLen == 6

LongNumberAlphabet == {"-", ".", "0", "9", " "}

LongNumberTexts ==
  UNION {[1..n -> LongNumberAlphabet] : n \in 0..MaxNumberLen}

InitUnpackNumber ==
  /\ policy = "Def"
  /\ prec = 0
  /\ a = 0
  /\ b = 0
  /\ text \in LongNumberTexts
  /\ parse_options \in AllParseOptions
  /\ InitCommon

SpecUnpackNumber == InitUnpackNumber /\ [][CallParseUnpacked]_vars

\* the call named o returns the ParseResult r, which holds a default Decimal
\* beside an error
ReturnsParseResult(o, r) ==
  /\ op' = o
  /\ error' = r.error
  /\ error_position' = r.error_position
  /\ ub' = r.decimal.ub
  /\ \E out \in Outcomes(r.decimal)
                \cup (IF r.asserted THEN {}
                      ELSE {[status |-> "abort", v |-> 0]}) :
       /\ status' = IF r.error # NoError THEN "error" ELSE out.status
       /\ value_' = IF out.status = "value" THEN out.v ELSE value_
  /\ UNCHANGED <<prec, policy, a, b, ok, result, text, parse_options,
                 unpacked_result, stream, trimmed, prec2, parse_state>>

\* impl::Parse<prec, policy>(StringCharSequence(text), parse_options)
CallParse ==
  /\ op = "none"
  /\ ReturnsParseResult("Parse", Parse(policy, prec, text, parse_options))

\* the characters of numbers
NumberAlphabet == {"-", ".", "0", "4", "9"}

NumberTexts == UNION {[1..n -> NumberAlphabet] : n \in 0..MaxTextLen}

InitParse ==
  /\ policy \in RoundPolicies
  /\ prec \in Precisions
  /\ a = 0
  /\ b = 0
  /\ text \in NumberTexts
  /\ parse_options \in AllParseOptions
  /\ InitCommon

SpecParse == InitParse /\ [][CallParse]_vars

\* std::isspace in the classic locale, which std::ws skips
StdSpace == {" ", "\t", "\n", kVerticalTab, "\f", "\r"}

\* is.good()
Good(st) == ~st.failbit /\ ~st.eofbit

\* the number of characters of input from index i on that std::ws skips
RECURSIVE WsLength(_, _)
WsLength(input, i) ==
  IF i <= Len(input) /\ input[i] \in StdSpace
  THEN 1 + WsLength(input, i + 1) ELSE 0

\* if (is.flags() & std::ios_base::skipws) std::ws(is): its sentry sets
\* failbit on a stream not good; it extracts whitespace, and sets eofbit
\* where it reaches the end
Ws(st, input) ==
  IF ~st.skipws THEN st
  ELSE IF ~Good(st) THEN [st EXCEPT !.failbit = TRUE]
  ELSE [st EXCEPT !.pos = st.pos + WsLength(input, st.pos + 1),
                  !.eofbit = st.pos + WsLength(input, st.pos + 1)
                             = Len(input)]

\* the characters StreamCharSequence(is) yields to Get: none when the stream
\* is not good, else those from the stream's position on
StreamCharSequence(st, input) ==
  IF Good(st) THEN SubSeq(input, st.pos + 1, Len(input)) ELSE <<>>

\* the stream after ParseUnpacked read the sequence and ended in ps: Get
\* extracted the characters before ps.current; a '\0' of the stream that
\* ended the loop was extracted as well; peek at the end set eofbit
StreamAfter(st, sequence, ps) ==
  IF ~Good(st) THEN st
  ELSE IF ps.state = "kEnd" THEN [st EXCEPT !.pos = st.pos + ps.current - 1]
  ELSE IF ps.current <= Len(sequence)
  THEN [st EXCEPT !.pos = st.pos + ps.current]
  ELSE [st EXCEPT !.pos = st.pos + ps.current - 1, !.eofbit = TRUE]

\* Extracted that assigns the decimal of the ParseResult whatever the error
Extracted_AssignsAlways(r, after) ==
  /\ op' = "operator>>"
  /\ error' = r.error
  /\ error_position' = r.error_position
  /\ ub' = r.decimal.ub
  /\ \E out \in Outcomes(r.decimal)
                \cup (IF r.asserted THEN {}
                      ELSE {[status |-> "abort", v |-> 0]}) :
       /\ status' = IF r.error # NoError THEN "error" ELSE out.status
       /\ value_' = IF out.status = "value" THEN out.v ELSE value_
  /\ stream' = [after EXCEPT !.failbit = after.failbit \/ r.error # NoError]
  /\ UNCHANGED <<prec, policy, a, b, ok, result, text, parse_options,
                 unpacked_result, trimmed, prec2, parse_state>>

\* if (result.error) is.setstate(failbit); else d = result.decimal;
\* with r the ParseResult and after the stream as Parse left it
Extracted(r, after) ==
  /\ op' = "operator>>"
  /\ error' = r.error
  /\ error_position' = r.error_position
  /\ ub' = r.decimal.ub
  /\ IF r.error # NoError
     THEN /\ status' = "error"
          /\ value_' = value_
          /\ stream' = [after EXCEPT !.failbit = TRUE]
     ELSE /\ \E out \in Outcomes(r.decimal)
                        \cup (IF r.asserted THEN {}
                              ELSE {[status |-> "abort", v |-> 0]}) :
               /\ status' = out.status
               /\ value_' = IF out.status = "value" THEN out.v ELSE value_
          /\ stream' = after
  /\ UNCHANGED <<prec, policy, a, b, ok, result, text, parse_options,
                 unpacked_result, trimmed, prec2, parse_state>>

\* the sequence read after std::ws left the stream as skipped
ExtractsFrom(skipped, sequence) ==
  Extracted(Parse(policy, prec, sequence, {kAllowTrailingJunk}),
            StreamAfter(skipped, sequence,
                        ParseUnpackedEnd(sequence, {kAllowTrailingJunk})))

\* is >> d, on the stream of the characters of text; again, from where the
\* stream was left
CallOperatorExtract ==
  /\ op \in {"none", "operator>>"}
  /\ ExtractsFrom(Ws(stream, text), StreamCharSequence(Ws(stream, text), text))

\* the decimal read into, not the default one
PriorMantissas == {7}

InitStream ==
  /\ policy = "Def"
  /\ prec \in Precisions
  /\ a \in PriorMantissas
  /\ b = 0
  /\ text \in Texts
  /\ parse_options = {kAllowTrailingJunk}
  /\ stream \in {GoodStream(skipws) : skipws \in BOOLEAN}
  /\ unpacked_result = NoParsed
  /\ trimmed = [after |-> 0, n_trimmed |-> 0]
  /\ prec2 = 0
  /\ parse_state = ParseUnpackedStart
  /\ op = "none"
  /\ status = "value"
  /\ ub = FALSE
  /\ ok = TRUE
  /\ result = 0
  /\ value_ = a
  /\ error = NoError
  /\ error_position = 0

SpecStream == InitStream /\ [][CallOperatorExtract]_vars

----------------------------------------------------------------------------
(* What the rounding policies are documented to compute: the exact         *)
(* quotient n / d, d # 0, rounded to an integer.                           *)

ExactFloor(n, d) == RatNum(n, d) \div RatDen(d)

ExactRest(n, d) == RatNum(n, d) - ExactFloor(n, d) * RatDen(d)

ExactCeil(n, d) ==
  IF ExactRest(n, d) = 0 THEN ExactFloor(n, d) ELSE ExactFloor(n, d) + 1

TowardZero(n, d) ==
  IF RatNum(n, d) >= 0 THEN ExactFloor(n, d) ELSE ExactCeil(n, d)

AwayFromZero(n, d) ==
  IF RatNum(n, d) >= 0 THEN ExactCeil(n, d) ELSE ExactFloor(n, d)

IsHalfway(n, d) == 2 * ExactRest(n, d) = RatDen(d)

\* the nearest integer; halfway is left to tie(n, d)
Nearest(n, d, tie) ==
  IF 2 * ExactRest(n, d) < RatDen(d) THEN ExactFloor(n, d)
  ELSE IF 2 * ExactRest(n, d) > RatDen(d) THEN ExactCeil(n, d)
  ELSE tie

ToEven(n, d) ==
  IF ExactFloor(n, d) % 2 = 0 THEN ExactFloor(n, d) ELSE ExactCeil(n, d)

RoundedQuotient(pol, n, d) ==
  CASE pol \in {"Null", "RoundDown"} -> TowardZero(n, d)
    [] pol \in {"Def", "HalfUp"} -> Nearest(n, d, AwayFromZero(n, d))
    [] pol = "HalfDown" -> Nearest(n, d, TowardZero(n, d))
    [] pol = "HalfEven" -> Nearest(n, d, ToEven(n, d))
    [] pol = "Ceiling" -> ExactCeil(n, d)
    [] pol = "Floor" -> ExactFloor(n, d)
    [] pol = "RoundUp" -> AwayFromZero(n, d)

----------------------------------------------------------------------------
(* What a text denotes, read off the grammar                               *)
(*   strict ::= [+-]? DIGIT+ ( '.' DIGIT+ )?                               *)
(* and not off the parser.                                                 *)

DIGIT == {"0", "1", "2", "3", "4", "5", "6", "7", "8", "9"}

AllDigits(s) == \A i \in 1..Len(s) : s[i] \in DIGIT

RECURSIVE NatValue(_)
NatValue(s) ==
  IF s = <<>> THEN 0
  ELSE 10 * NatValue(SubSeq(s, 1, Len(s) - 1))
       + (CHOOSE n \in 0..9 : FormatNat(n) = <<s[Len(s)]>>)

HasSign(t) == Len(t) > 0 /\ t[1] \in {"+", "-"}

Unsigned(t) == IF HasSign(t) THEN Tail(t) ELSE t

IsNegativeText(t) == Len(t) > 0 /\ t[1] = "-"

\* the index of the first dot of s, Len(s) + 1 when there is none
DotIndex(s) ==
  CHOOSE k \in 1..(Len(s) + 1) :
    /\ k <= Len(s) => s[k] = "."
    /\ \A i \in 1..(k - 1) : s[i] # "."

IntegerDigits(t) == SubSeq(Unsigned(t), 1, DotIndex(Unsigned(t)) - 1)

FractionDigits(t) ==
  SubSeq(Unsigned(t), DotIndex(Unsigned(t)) + 1, Len(Unsigned(t)))

HasDot(t) == DotIndex(Unsigned(t)) <= Len(Unsigned(t))

MatchesStrict(t) ==
  /\ IntegerDigits(t) # <<>>
  /\ AllDigits(IntegerDigits(t))
  /\ AllDigits(FractionDigits(t))
  /\ HasDot(t) => FractionDigits(t) # <<>>

\* the integer part fits (section 4.6 of the specification): at most
\* kMaxDecimalDigits significant digits, and less than max_i64 / F
IntegerPartFits(t, Prec) ==
  /\ NatValue(IntegerDigits(t)) < Pow10(kMaxDecimalDigits)
  /\ NatValue(IntegerDigits(t)) < kMaxInt64 \div Pow10(Prec)

StrictlyValid(t, Prec) ==
  /\ MatchesStrict(t)
  /\ IntegerPartFits(t, Prec)
  /\ Len(FractionDigits(t)) <= Prec

RECURSIVE TrimLeft(_)
TrimLeft(t) == IF t # <<>> /\ t[1] = " " THEN TrimLeft(Tail(t)) ELSE t

RECURSIVE TrimRight(_)
TrimRight(t) ==
  IF t # <<>> /\ t[Len(t)] = " "
  THEN TrimRight(SubSeq(t, 1, Len(t) - 1)) ELSE t

Trimmed(t) == TrimRight(TrimLeft(t))

\* a number with a dot and digits after it, spaces around it allowed, the
\* digits before the dot optional
MatchesWithFraction(t) ==
  /\ HasDot(Trimmed(t))
  /\ AllDigits(IntegerDigits(Trimmed(t)))
  /\ AllDigits(FractionDigits(Trimmed(t)))
  /\ FractionDigits(Trimmed(t)) # <<>>

\* the exact value of such a text is ExactNumerator / 10^FractionLen
FractionLen(t) == Len(FractionDigits(Trimmed(t)))

ExactNumerator(t) ==
  (IF IsNegativeText(Trimmed(t)) THEN -1 ELSE 1)
  * (NatValue(IntegerDigits(Trimmed(t))) * Pow10(FractionLen(t))
     + NatValue(FractionDigits(Trimmed(t))))

----------------------------------------------------------------------------
(* Claims on text *)

\* C1: for every Decimal d of every precision, with any 64-bit mantissa,
\* constructing a Decimal in strict mode from ToString(d) or from
\* ToStringTrailingZeros(d) succeeds and yields d.
C1_RoundTrip ==
  (op = "Decimal(string_view)") => (status = "value" /\ value_ = a)

\* C2: Decimal(string_view) succeeds exactly on the strings that match
\* [+-]?DIGIT+('.'DIGIT+)?, whose integer part fits and that have at most P
\* fractional digits; on every other string it throws and yields no value.
C2_StrictAcceptsExactlyTheGrammar ==
  (op = "Decimal(string_view)")
    => /\ status \in {"value", "throw"}
       /\ status = "value" <=> StrictlyValid(text, prec)
       /\ status = "throw" <=> error # NoError

\* C5: FromStringPermissive of a number with more fractional digits than P
\* returns its exact value rounded to P fractional digits by the policy,
\* however many the extra digits are; stated for the policies and signs for
\* which DivRounded by a power of ten is itself right (C9 is about
\* HalfDownRoundPolicy and HalfUpRoundPolicy on negative numerators).
C5_PermissiveRoundsExactValue ==
  (/\ op = "FromStringPermissive"
   /\ MatchesWithFraction(text)
   /\ FractionLen(text) > prec
   /\ IntegerPartFits(Trimmed(text), prec)
   /\ ~(policy \in {"HalfDown", "HalfUp"} /\ IsNegativeText(Trimmed(text))))
    => (status = "value"
        /\ value_ = RoundedQuotient(policy, ExactNumerator(text),
                                    Pow10(FractionLen(text) - prec)))

\* Where the two statements above do hold.  The strict constructor accepts
\* exactly the grammar on every text without '\0':
StrictOnNulFreeText ==
  (\A i \in 1..Len(text) : text[i] # kNul)
    => C2_StrictAcceptsExactlyTheGrammar

\* and FromStringPermissive rounds the exact value when P > 0, the text has
\* at most kMaxDecimalDigits fractional digits and no UASSERT aborted:
PermissiveWithinDigits ==
  (prec > 0 /\ status # "abort" /\ FractionLen(text) <= kMaxDecimalDigits)
    => C5_PermissiveRoundsExactValue

----------------------------------------------------------------------------
(* Claims on arithmetic and rounding.  Where a claim is about the value    *)
(* computed, it is stated of the executions in which no signed operation   *)
(* overflowed (~ub): what an overflow leaves behind is not a value of the  *)
(* program.                                                                *)

\* C3: whenever the exact product is representable, a * b has the mantissa
\* a.m * b.m / 10^P rounded by the type's rounding policy, for every policy
\* and both signs of the operands.
C3_MulIsRoundedProduct ==
  (/\ op = "MulAssign"
   /\ ~ub
   /\ Fits(RoundedQuotient(policy, a * b, Pow10(prec))))
    => (status = "value"
        /\ value_ = RoundedQuotient(policy, a * b, Pow10(prec)))

\* C4: for b # 0 of either sign, a / b under CeilingRoundPolicy is the
\* smallest decimal >= the exact quotient and under FloorRoundPolicy the
\* largest decimal <= it, whenever that decimal is representable.
C4_DivIsDirected ==
  (/\ op = "DivAssign"
   /\ policy \in {"Ceiling", "Floor"}
   /\ b # 0
   /\ ~ub
   /\ Fits(RoundedQuotient(policy, a * Pow10(prec), b)))
    => (status = "value"
        /\ value_ = IF policy = "Ceiling"
                    THEN ExactCeil(a * Pow10(prec), b)
                    ELSE ExactFloor(a * Pow10(prec), b))

\* C6: for every policy and b # 0, DivRounded either returns ok = true with
\* the output a / b rounded by the policy's rule, or returns ok = false; it
\* never returns ok = true after an intermediate value left the signed word.
\* Stated for a and b other than min_i64, whose absolute value is no int64_t.
C6_DivRoundedNeverSilentlyWrong ==
  (op = "DivRounded" /\ b # 0 /\ a # kMinInt64 /\ b # kMinInt64 /\ ok)
    => (~ub /\ status = "value" /\ result = RoundedQuotient(policy, a, b))

\* C7: dividing a decimal by a nonzero integer k yields the mantissa m / k
\* rounded per the policy, for every mantissa m, also when DivRounded
\* reports failure and operator/= falls back to MultDiv.
C7_DivByIntegerIsRoundedQuotient ==
  (/\ op = "DivAssignInt"
   /\ b # 0
   /\ ~ub
   /\ Fits(RoundedQuotient(policy, a, b)))
    => (status = "value" /\ value_ = RoundedQuotient(policy, a, b))

\* C8: reducing precision (decimal_cast from oldP = b to P = prec < oldP, and
\* ToInteger) returns m / 10^(oldP - P) rounded by the target's policy, for
\* every source mantissa m.
C8_ReducingPrecisionRounds ==
  /\ (op = "decimal_cast" /\ prec < b /\ ~ub)
       => (status = "value"
           /\ value_ = RoundedQuotient(policy, a, Pow10(b - prec)))
  /\ (op = "ToInteger" /\ ~ub)
       => (status = "value"
           /\ result = RoundedQuotient(policy, a, Pow10(prec)))

\* C9: for even b > 0 and a exactly halfway (|a| mod b = b / 2),
\* HalfDownRoundPolicy::DivRounded returns the neighbour closer to zero and
\* HalfUpRoundPolicy::DivRounded the neighbour farther from zero, for
\* negative a as for positive a.
C9_HalfwayTies ==
  (/\ op = "DivRounded"
   /\ policy \in {"HalfDown", "HalfUp"}
   /\ b > 0 /\ b % 2 = 0
   /\ MathAbs(a) % b = b \div 2
   /\ ~ub
   /\ ok)
    => (status = "value"
        /\ result = IF policy = "HalfDown" THEN TowardZero(a, b)
                    ELSE AwayFromZero(a, b))

\* C10: HalfEvenRoundPolicy::DivRounded(a, b) returns the integer nearest to
\* a / b, the even one only when a / b is exactly halfway, for every a and
\* every positive divisor b, odd or even.
C10_HalfEvenIsNearest ==
  (op = "DivRounded" /\ policy = "HalfEven" /\ b > 0 /\ ~ub /\ ok)
    => (status = "value" /\ result = Nearest(a, b, ToEven(a, b)))

----------------------------------------------------------------------------
(* Claims on the parser.  The texts of SpecParse are made of the           *)
(* characters of numbers, so what the options other than AllowRounding     *)
(* and AllowBoundaryDot allow does not occur in them.                      *)

\* a number, with the dot allowed at either end:
\*   [+-]? ( DIGIT+ ('.' DIGIT*)? | '.' DIGIT+ )
MatchesBoundaryDot(t) ==
  /\ AllDigits(IntegerDigits(t))
  /\ AllDigits(FractionDigits(t))
  /\ IntegerDigits(t) # <<>> \/ FractionDigits(t) # <<>>

\* a number valid but for the count of its fractional digits
OtherwiseValid(t, opts, Prec) ==
  /\ IF kAllowBoundaryDot \in opts THEN MatchesBoundaryDot(t)
     ELSE MatchesStrict(t)
  /\ IntegerPartFits(t, Prec)

\* the mantissa at precision Prec of a number with at most Prec fractional
\* digits
ExactMantissa(t, Prec) ==
  (IF IsNegativeText(t) THEN -1 ELSE 1)
  * (NatValue(IntegerDigits(t)) * Pow10(Prec)
     + NatValue(FractionDigits(t)) * Pow10(Prec - Len(FractionDigits(t))))

\* C11: with AllowRounding off, Parse of an otherwise valid number with more
\* than P fractional digits returns the error Rounding and a default Decimal,
\* whatever the extra digits are; with at most P fractional digits it returns
\* the exact value and no error.
C11_RoundingOffRejectsExtraDigits ==
  (/\ op = "Parse"
   /\ kAllowRounding \notin parse_options
   /\ OtherwiseValid(text, parse_options, prec))
    => IF Len(FractionDigits(text)) > prec
       THEN status = "error" /\ error = "kRounding" /\ value_ = 0
       ELSE /\ status = "value"
            /\ error = NoError
            /\ value_ = ExactMantissa(text, prec)

\* a number with more fractional digits than any Decimal holds was refused,
C11_Refused ==
  /\ op = "Parse"
  /\ kAllowRounding \notin parse_options
  /\ OtherwiseValid(text, parse_options, prec)
  /\ Len(FractionDigits(text)) > kMaxDecimalDigits
  /\ error = "kRounding"

----------------------------------------------------------------------------
(* Claims on ParseUnpacked.  Its input is a CharSequence, which by its     *)
(* contract ends where Get returns '\0': the claims are stated of the      *)
(* texts without '\0'.  What a text with '\0' does to the callers is C2.   *)

NulFree(t) == \A i \in 1..Len(t) : t[i] # kNul

SPACE == {" ", "\t", "\r", "\n", kVerticalTab}

\* the number of characters of s from index i on that are all in set
RECURSIVE RunLength(_, _, _)
RunLength(s, i, set) ==
  IF i <= Len(s) /\ s[i] \in set THEN 1 + RunLength(s, i + 1, set) ELSE 0

\* s without its first n characters
Drop(s, n) == SubSeq(s, n + 1, Len(s))

Take(s, n) == SubSeq(s, 1, n)

\* the length of the longest prefix of s of the shape sign? digit* (. digit*)?
NumberLength(s) ==
  LET sign == IF HasSign(s) THEN 1 ELSE 0
      int == RunLength(s, sign + 1, DIGIT)
      dot == IF sign + int + 1 <= Len(s) /\ s[sign + int + 1] = "."
             THEN 1 ELSE 0
      frac == IF dot = 1 THEN RunLength(s, sign + int + 2, DIGIT) ELSE 0
  IN  sign + int + dot + frac

\* the text splits into spaces, the number and what follows it
LeadingSpaces(t) == RunLength(t, 1, SPACE)

NumberOf(t) ==
  Take(Drop(t, LeadingSpaces(t)), NumberLength(Drop(t, LeadingSpaces(t))))

Following(t) ==
  Drop(Drop(t, LeadingSpaces(t)), NumberLength(Drop(t, LeadingSpaces(t))))

\* the number of the text is complete under the options: it is a number,
\* the spaces before it are allowed, and its digits are within what
\* ParseUnpacked holds
CompleteNumber(t, opts) ==
  /\ NulFree(t)
  /\ LeadingSpaces(t) > 0 => kAllowSpaces \in opts
  /\ IF kAllowBoundaryDot \in opts THEN MatchesBoundaryDot(NumberOf(t))
     ELSE MatchesStrict(NumberOf(t))
  /\ NatValue(IntegerDigits(NumberOf(t))) < Pow10(kMaxDecimalDigits)
  /\ Len(FractionDigits(NumberOf(t))) > kMaxDecimalDigits
       => kAllowRounding \in opts

\* the ParseUnpackedResult holds the number n, of at most kMaxDecimalDigits
\* fractional digits, and no error
Holds(r, n) ==
  /\ r.error = NoError
  /\ r.before = NatValue(IntegerDigits(n))
  /\ r.after = NatValue(FractionDigits(n))
  /\ r.decimal_digits = Len(FractionDigits(n))
  /\ r.is_negative = IsNegativeText(n)

\* C12: what follows a complete number.  With AllowTrailingJunk off: a
\* non-space character in it gives TrailingJunk; only spaces give Space when
\* AllowSpaces is off and no error when it is on.  With AllowTrailingJunk on
\* it is ignored and the number read so far is returned.  A space before the
\* number with AllowSpaces off gives Space.
C12_WhatFollowsTheNumber ==
  (op = "ParseUnpacked" /\ NulFree(text))
    => /\ (/\ CompleteNumber(text, parse_options)
           /\ Following(text) # <<>>
           /\ kAllowTrailingJunk \notin parse_options)
            => unpacked_result.error
                 = IF \E i \in 1..Len(Following(text)) :
                         Following(text)[i] \notin SPACE
                   THEN "kTrailingJunk"
                   ELSE IF kAllowSpaces \in parse_options THEN NoError
                   ELSE "kSpace"
       /\ (/\ CompleteNumber(text, parse_options)
           /\ kAllowTrailingJunk \in parse_options)
            => /\ unpacked_result.error = NoError
               /\ Len(FractionDigits(NumberOf(text))) <= kMaxDecimalDigits
                    => Holds(unpacked_result, NumberOf(text))
       /\ (/\ LeadingSpaces(text) > 0
           /\ kAllowSpaces \notin parse_options)
            => unpacked_result.error = "kSpace"

\* junk after spaces after a number was classified
C12_JunkAfterSpaces ==
  /\ op = "ParseUnpacked"
  /\ CompleteNumber(text, parse_options)
  /\ Len(Following(text)) >= 2
  /\ Following(text)[1] \in SPACE
  /\ Following(text)[2] \notin SPACE
  /\ unpacked_result.error = "kTrailingJunk"

\* the 0-based index in t of the first character of what follows the number
NumberEnd(t) == Len(t) - Len(Following(t))

\* the 0-based index in t of the first significant integer digit: after the
\* spaces, the sign and the leading zeros
FirstSignificant(t) ==
  LeadingSpaces(t) + (IF HasSign(Drop(t, LeadingSpaces(t))) THEN 1 ELSE 0)
    + RunLength(t, LeadingSpaces(t)
                     + (IF HasSign(Drop(t, LeadingSpaces(t))) THEN 1 ELSE 0)
                     + 1, {"0"})

\* the 0-based index of the first offending character of each error
OffendingIndex(t, err) ==
  CASE err = "kSpace" ->
         IF LeadingSpaces(t) > 0 THEN 0 ELSE NumberEnd(t)
    [] err = "kTrailingJunk" ->
         NumberEnd(t) + RunLength(Following(t), 1, SPACE)
    [] err = "kWrongChar" -> NumberEnd(t)
    [] err = "kOverflow" -> FirstSignificant(t) + kMaxDecimalDigits
    [] OTHER -> unpacked_result.error_position

\* C13: for every error ParseUnpacked reports, error_position is the 0-based
\* index of the first offending character: the first disallowed space for
\* Space, the first non-space junk character for TrailingJunk, the unexpected
\* character for WrongChar, the first integer digit past the cap for
\* Overflow; it is always an index into the input or its length.
C13_ErrorPositionIsFirstOffender ==
  (op = "ParseUnpacked" /\ NulFree(text)
   /\ unpacked_result.error # NoError)
    => /\ unpacked_result.error_position \in 0..Len(text)
       /\ unpacked_result.error_position
            = OffendingIndex(text, unpacked_result.error)

\* the same, apart from the empty input and from Space after the number
C13_PositionElsewhere ==
  (op = "ParseUnpacked" /\ NulFree(text)
   /\ unpacked_result.error # NoError
   /\ text # <<>>
   /\ ~(unpacked_result.error = "kSpace" /\ LeadingSpaces(text) = 0))
    => /\ unpacked_result.error_position \in 0..(Len(text) - 1)
       /\ unpacked_result.error_position
            = OffendingIndex(text, unpacked_result.error)

\* Space after the number is reported at the last space
C13_TrailingSpaceAtLast ==
  (op = "ParseUnpacked" /\ NulFree(text)
   /\ unpacked_result.error = "kSpace" /\ LeadingSpaces(text) = 0)
    => unpacked_result.error_position = Len(text) - 1

\* the digits without their leading zeros
Significant(ds) == Drop(ds, RunLength(ds, 1, {"0"}))

Min(x, y) == IF x < y THEN x ELSE y

\* the parser reaches the integer part of the text: spaces before it are
\* allowed, and it has an integer part
ReachesInteger(t, opts) ==
  /\ NulFree(t)
  /\ LeadingSpaces(t) > 0 => kAllowSpaces \in opts
  /\ IntegerDigits(NumberOf(t)) # <<>>

\* C14: up to kMaxDecimalDigits significant integer digits are accepted and
\* accumulated exactly in before; one more significant integer digit sets
\* the error Overflow, the parser goes on consuming the remaining digits and
\* the fraction, and Overflow is the error in the end reported.
C14_IntegerDigitCap ==
  (op = "ParseUnpacked" /\ ReachesInteger(text, parse_options))
    => LET sig == Significant(IntegerDigits(NumberOf(text)))
           frac == FractionDigits(NumberOf(text))
       IN  IF Len(sig) <= kMaxDecimalDigits
           THEN /\ unpacked_result.error # "kOverflow"
                /\ unpacked_result.before = NatValue(sig)
           ELSE /\ unpacked_result.error = "kOverflow"
                /\ unpacked_result.before
                     = NatValue(Take(sig, kMaxDecimalDigits))
                /\ unpacked_result.decimal_digits
                     = Min(Len(frac), kMaxDecimalDigits)
                /\ Len(frac) <= kMaxDecimalDigits
                     => unpacked_result.after = NatValue(frac)

\* an integer part past the cap, then a fraction and a space, were read
C14_OverflowThenFraction ==
  /\ op = "ParseUnpacked"
  /\ ReachesInteger(text, parse_options)
  /\ Len(Significant(IntegerDigits(NumberOf(text)))) > kMaxDecimalDigits
  /\ unpacked_result.error = "kOverflow"
  /\ unpacked_result.after > 0
  /\ Following(text) # <<>>

\* the input ends with no digit read and no other error to record: spaces
\* where they are allowed, a sign, a dot where boundary dots are allowed
EndsWithoutDigits(t, opts) ==
  /\ NulFree(t)
  /\ LeadingSpaces(t) > 0 => kAllowSpaces \in opts
  /\ Following(t) = <<>>
  /\ \A i \in 1..Len(NumberOf(t)) : NumberOf(t)[i] \notin DIGIT
  /\ (\E i \in 1..Len(NumberOf(t)) : NumberOf(t)[i] = ".")
       => kAllowBoundaryDot \in opts

\* C16: if the input ends with no digit consumed before or after the dot and
\* no other error recorded (the empty string, only a sign, only spaces when
\* spaces are allowed, a lone dot when boundary dots are allowed), the error
\* is NoDigits.
C16_NoDigits ==
  (op = "ParseUnpacked" /\ EndsWithoutDigits(text, parse_options))
    => unpacked_result.error = "kNoDigits"

\* spaces, a sign and a dot, and nothing else, were read
C16_SignAndDotOnly ==
  /\ op = "ParseUnpacked"
  /\ EndsWithoutDigits(text, parse_options)
  /\ LeadingSpaces(text) > 0
  /\ Len(NumberOf(text)) = 2
  /\ unpacked_result.error = "kNoDigits"

\* ParseUnpacked has no error to report on the text: its number is complete
\* and what follows it is allowed
Unpacks(t, opts) ==
  /\ CompleteNumber(t, opts)
  /\ \/ Following(t) = <<>>
     \/ kAllowTrailingJunk \in opts
     \/ /\ kAllowSpaces \in opts
        /\ \A i \in 1..Len(Following(t)) : Following(t)[i] \in SPACE

\* the number has a dot with no digit before it or no digit after it
BoundaryDotNumber(n) ==
  /\ \E i \in 1..Len(n) : n[i] = "."
  /\ IntegerDigits(n) = <<>> \/ FractionDigits(n) = <<>>

\* the number has digits, and all of them are 0
ZeroNumber(n) ==
  /\ \E i \in 1..Len(n) : n[i] \in DIGIT
  /\ \A i \in 1..Len(n) : n[i] \in DIGIT => n[i] = "0"

\* C17: with AllowBoundaryDot off, a number whose dot has no digit before it
\* or no digit after it (at the end of the input or before a non-digit)
\* yields BoundaryDot; with AllowBoundaryDot on, such a number parses to its
\* value (".5" to 0.5, "5." to 5); "0", "-0", "+0", ".0", "0." parse to zero.
C17_BoundaryDot ==
  (op = "ParseUnpacked" /\ NulFree(text)
   /\ (LeadingSpaces(text) > 0 => kAllowSpaces \in parse_options))
    => /\ (/\ kAllowBoundaryDot \notin parse_options
           /\ BoundaryDotNumber(NumberOf(text))
           /\ Len(Significant(IntegerDigits(NumberOf(text))))
                <= kMaxDecimalDigits)
            => unpacked_result.error = "kBoundaryDot"
       /\ (/\ kAllowBoundaryDot \in parse_options
           /\ BoundaryDotNumber(NumberOf(text))
           /\ Unpacks(text, parse_options)
           /\ Len(FractionDigits(NumberOf(text))) <= kMaxDecimalDigits)
            => Holds(unpacked_result, NumberOf(text))
       /\ (/\ ZeroNumber(NumberOf(text))
           /\ Unpacks(text, parse_options))
            => /\ unpacked_result.error = NoError
               /\ unpacked_result.before = 0
               /\ unpacked_result.after = 0

\* a dot with no digit after it, before a non-digit, was refused
C17_DotBeforeNonDigit ==
  /\ op = "ParseUnpacked"
  /\ NulFree(text)
  /\ kAllowBoundaryDot \notin parse_options
  /\ IntegerDigits(NumberOf(text)) # <<>>
  /\ BoundaryDotNumber(NumberOf(text))
  /\ Following(text) # <<>>
  /\ unpacked_result.error = "kBoundaryDot"

----------------------------------------------------------------------------
(* Claims on Parse *)

\* the value of the number n at precision Prec: exact, or rounded by the
\* policy where n has more than Prec fractional digits
ValueOfText(pol, n, Prec) ==
  IF Len(FractionDigits(n)) <= Prec THEN ExactMantissa(n, Prec)
  ELSE RoundedQuotient(
         pol,
         (IF IsNegativeText(n) THEN -1 ELSE 1)
           * (NatValue(IntegerDigits(n)) * Pow10(Len(FractionDigits(n)))
              + NatValue(FractionDigits(n))),
         Pow10(Len(FractionDigits(n)) - Prec))

\* Parse reports Overflow whenever before >= max_i64 / 10^P
ParseGuardsOverflow ==
  (/\ op = "Parse"
   /\ Unpacks(text, parse_options)
   /\ NatValue(IntegerDigits(NumberOf(text))) >= kMaxInt64 \div Pow10(prec))
    => (status = "error" /\ error = "kOverflow")

\* every decimal returned without error was computed within the word
ParseWithinRange ==
  (op = "Parse" /\ error = NoError) => ~ub

\* C15: Parse reports Overflow whenever the parsed integer part satisfies
\* before >= max_i64 / 10^P, and every decimal returned without error has a
\* mantissa computed without leaving the word, equal to the exact or the
\* policy-rounded value of the text, for positive and negative inputs.
C15_ParsedMantissaInRange ==
  /\ ParseGuardsOverflow
  /\ ParseWithinRange
  /\ (/\ op = "Parse"
      /\ error = NoError
      /\ ~(policy \in {"HalfDown", "HalfUp"}
           /\ IsNegativeText(NumberOf(text))))
       => (status = "value"
           /\ value_ = ValueOfText(policy, NumberOf(text), prec))

\* the same where the fraction is not dropped, is not rounded before the
\* policy sees it, and no assertion fails
ParsedValueWithinDigits ==
  (/\ op = "Parse"
   /\ error = NoError
   /\ prec > 0
   /\ status # "abort"
   /\ Len(FractionDigits(NumberOf(text))) <= kMaxDecimalDigits
   /\ ~(policy \in {"HalfDown", "HalfUp"}
        /\ IsNegativeText(NumberOf(text))))
    => (status = "value"
        /\ value_ = ValueOfText(policy, NumberOf(text), prec))

\* permissive ::= SPACE* [+-]? ( DIGIT+ ('.' DIGIT*)? | '.' DIGIT+ ) SPACE*
MatchesPermissive(t) ==
  /\ MatchesBoundaryDot(NumberOf(t))
  /\ \A i \in 1..Len(Following(t)) : Following(t)[i] \in SPACE

\* C18: permissive parsing (AllowSpaces, AllowBoundaryDot, AllowRounding, as
\* FromStringPermissive uses it) succeeds exactly on the strings that match
\* the permissive grammar and whose integer part fits; a space between the
\* sign and the first digit, a lone dot, and a non-space character after the
\* number are rejected.
C18_PermissiveAcceptsExactlyTheGrammar ==
  (op = "FromStringPermissive")
    => (status = "value"
        <=> (/\ MatchesPermissive(text)
             /\ IntegerPartFits(NumberOf(text), prec)))

\* the same on the texts without '\0', where no assertion fails
PermissiveOnNulFreeText ==
  (NulFree(text) /\ status # "abort")
    => C18_PermissiveAcceptsExactlyTheGrammar

----------------------------------------------------------------------------
(* Claims on formatting *)

\* the string s writes the mantissa m at precision Prec with frac_len
\* fractional digits: one leading '-' exactly when m is negative, the integer
\* part without leading zeros, and a dot exactly when a fractional digit
\* follows
Writes(s, m, Prec, frac_len) ==
  /\ (s # <<>> /\ s[1] = "-") <=> m < 0
  /\ s # <<>> => s[1] # "+"
  /\ IntegerDigits(s) # <<>>
  /\ AllDigits(IntegerDigits(s))
  /\ Len(IntegerDigits(s)) > 1 => IntegerDigits(s)[1] # "0"
  /\ AllDigits(FractionDigits(s))
  /\ Len(FractionDigits(s)) = frac_len
  /\ HasDot(s) <=> frac_len > 0
  /\ frac_len <= Prec
  /\ (IF m < 0 THEN -m ELSE m)
       = NatValue(IntegerDigits(s)) * Pow10(Prec)
         + NatValue(FractionDigits(s)) * Pow10(Prec - frac_len)

\* the number of trailing zeros of the Prec-digit fraction of m
TrailingZeros(m, Prec) ==
  CHOOSE k \in 0..Prec :
    /\ (m % Pow10(Prec)) % Pow10(k) = 0
    /\ k < Prec => (m % Pow10(Prec)) % Pow10(k + 1) # 0

\* C19: for every decimal d, ToStringTrailingZeros(d) prints the integer part
\* and exactly P zero-padded fractional digits (no dot when P = 0);
\* ToString(d) prints the same number with all trailing fractional zeros
\* removed, and no dot when no fractional digit remains; TrimTrailingZeros
\* returns exactly the number of trailing zeros of the P-digit fraction; a
\* negative d prints one leading '-', also when its integer part is 0.
C19_Formatting ==
  /\ op = "ToStringTrailingZeros" => Writes(text, value_, prec, prec)
  /\ op = "ToString"
       => /\ Writes(text, value_, prec, prec - TrailingZeros(value_, prec))
          /\ text[Len(text)] \notin {"."}
          /\ HasDot(text) => text[Len(text)] # "0"
  /\ op = "TrimTrailingZeros"
       => /\ trimmed.n_trimmed = TrailingZeros(value_, prec)
          /\ trimmed.after * Pow10(trimmed.n_trimmed)
               = AsUnpacked(prec, value_).after

\* a negative decimal with integer part 0 and trailing zeros to trim was
\* printed
C19_NegativeFractionTrimmed ==
  /\ op = "ToString"
  /\ value_ < 0
  /\ -value_ < Pow10(prec)
  /\ TrailingZeros(value_, prec) >= 3
  /\ Len(text) >= 4
  /\ SubSeq(text, 1, 3) = <<"-", "0", ".">>

----------------------------------------------------------------------------
(* Claims on stream input *)

\* what is left of the text for the parser: nothing when the stream is not
\* good, else the text from the stream's position on, without its leading
\* whitespace if the stream skips it
LeftToRead(st, t) ==
  IF st.failbit \/ st.eofbit THEN <<>>
  ELSE IF st.skipws
  THEN IF st.pos + RunLength(t, st.pos + 1, StdSpace) = Len(t) THEN <<>>
       ELSE Drop(t, st.pos + RunLength(t, st.pos + 1, StdSpace))
  ELSE Drop(t, st.pos)

\* s starts with a number the strict constructor takes
StartsWithNumber(s, Prec) ==
  /\ LeadingSpaces(s) = 0
  /\ StrictlyValid(NumberOf(s), Prec)

\* C20: is >> d.  On any parse error the stream's fail bit is set and d keeps
\* its prior value; on success d is assigned the parsed value, and the
\* characters that follow the number are no error: the extraction succeeds
\* exactly when what is left to read starts with a number.
C20_StreamInput ==
  [][op' = "operator>>"
       => /\ error' # NoError
               => (stream'.failbit /\ value_' = value_)
          /\ error' = NoError
               => /\ stream'.failbit = stream.failbit
                  /\ status' = "value"
                  /\ value_' = ExactMantissa(
                                 NumberOf(LeftToRead(stream, text)), prec)
          /\ error' = NoError
               <=> StartsWithNumber(LeftToRead(stream, text), prec)]_vars

\* a decimal was read, with characters left behind it, and a second
\* extraction failed and left the decimal as read
C20_ReadThenFailed ==
  /\ op = "operator>>"
  /\ stream.failbit
  /\ error # NoError
  /\ value_ # a
  /\ stream.pos < Len(text)

----------------------------------------------------------------------------
(* Claims on decimals of two precisions *)

\* C21: between Decimal(Pa, R) and Decimal(Pb, R): when Pb <= Pa, a += b
\* (a -= b) adds (subtracts) exactly b.m * 10^(Pa - Pb) to the mantissa of
\* a; when Pb > Pa it adds (subtracts) b.m / 10^(Pb - Pa) rounded by R; and
\* an integer x constructed at P1 and converted to P2 >= P1 equals x
\* constructed at P2.  Stated where the exact results are representable.
C21_CrossPrecision ==
  LET term == IF prec2 <= prec THEN b * Pow10(prec - prec2)
              ELSE RoundedQuotient(policy, b, Pow10(prec2 - prec))
  IN  /\ (op = "operator+=" /\ Fits(term) /\ Fits(a + term))
           => (status = "value" /\ ~ub /\ value_ = a + term)
      /\ (op = "operator-=" /\ Fits(term) /\ Fits(a - term))
           => (status = "value" /\ ~ub /\ value_ = a - term)
      /\ (op = "operator=" /\ prec >= prec2 /\ Fits(b * Pow10(prec)))
           => (status = "value" /\ ~ub /\ value_ = b * Pow10(prec))

\* the same of operator+= and of the conversion, where the other precision
\* is not the greater one
AddsScaledExactly ==
  /\ (op = "operator+=" /\ prec2 <= prec
      /\ Fits(b * Pow10(prec - prec2))
      /\ Fits(a + b * Pow10(prec - prec2)))
       => (status = "value" /\ ~ub
           /\ value_ = a + b * Pow10(prec - prec2))
  /\ (op = "operator=" /\ prec >= prec2 /\ Fits(b * Pow10(prec)))
       => (status = "value" /\ ~ub /\ value_ = b * Pow10(prec))

\* operator-= of another precision never yields a value
SubtractionOfOtherPrecisionIllFormed ==
  (op = "operator-=" /\ prec2 # prec) => status = "ill-formed"

\* operator+= of a greater precision adds the rounded quotient where
\* DivRounded neither overflows nor fails (the mantissa of b is a divisor
\* away from both ends of the range) and, for the policies HalfDown and
\* HalfUp, b is not negative
AddsRoundedAwayFromRangeEnds ==
  LET divisor == Pow10(prec2 - prec)
      term == RoundedQuotient(policy, b, divisor)
  IN  (/\ op = "operator+="
       /\ prec2 > prec
       /\ b - divisor >= kMinInt64
       /\ b + divisor <= kMaxInt64
       /\ policy \in {"HalfDown", "HalfUp"} => b >= 0
       /\ Fits(a + term))
        => (status = "value" /\ ~ub /\ value_ = a + term)

----------------------------------------------------------------------------
(* Claims on integer scaling, sign and absolute value *)

\* C22: under FloorRoundPolicy, for every decimal d and every integer
\* k # 0 whose product d.m * k does not overflow, (d * k) / k = d, for both
\* signs of d and of k.
C22_ScaleAndBack ==
  (op = "operator/=" /\ policy = "Floor" /\ b # 0 /\ Fits(a * b))
    => (status = "value" /\ ~ub /\ value_ = a)

\* the same where neither the product nor the integer is the least value of
\* the word, whose absolute value Floor's DivRounded cannot compute
ScaleAndBackAboveLeast ==
  (/\ op = "operator/="
   /\ policy = "Floor"
   /\ b # 0
   /\ Fits(a * b)
   /\ a * b # kMinInt64
   /\ b # kMinInt64)
    => (status = "value" /\ ~ub /\ value_ = a)

\* C23: for every decimal d, over every mantissa of the word with its two
\* extremes: Abs(d).Sign() >= 0 and the mantissa of Abs(d) is the absolute
\* value of the mantissa of d; Sign(d) is -1, 0 or 1 and agrees with the
\* comparison of d against Decimal(0).
C23_SignAndAbs ==
  LET magnitude == IF a < 0 THEN -a ELSE a
  IN  /\ op = "Abs" => (status = "value" /\ ~ub /\ value_ = magnitude)
      /\ op = "Abs.Sign" => (status = "value" /\ ~ub /\ result >= 0)
      /\ op = "Sign"
           => /\ status = "value"
              /\ result \in {-1, 0, 1}
              /\ result = -1 <=> Less(a, 0)
              /\ result = 0 <=> Equal(a, 0)
              /\ result = 1 <=> Greater(a, 0)

\* the same above the least mantissa, and of Sign for every mantissa
SignAndAbsAboveLeast ==
  LET magnitude == IF a < 0 THEN -a ELSE a
  IN  /\ (op = "Abs" /\ a # kMinInt64)
           => (status = "value" /\ ~ub /\ value_ = magnitude)
      /\ (op = "Abs.Sign" /\ a # kMinInt64)
           => (status = "value" /\ ~ub /\ result >= 0)
      /\ op = "Sign"
           => /\ status = "value"
              /\ result \in {-1, 0, 1}
              /\ result = -1 <=> Less(a, 0)
              /\ result = 0 <=> Equal(a, 0)
              /\ result = 1 <=> Greater(a, 0)

\* the absolute value of the least mantissa does not exist in the word
AbsOfLeastOverflows ==
  (op = "Abs" /\ a = kMinInt64) => (ub /\ (status = "value" => value_ < 0))

----------------------------------------------------------------------------
(* Claims on MultDiv *)

\* C24: dividing a decimal by a decimal whose mantissa is zero never
\* returns a value: under every rounding policy the division reaches the
\* integer division by zero, a runtime fault, before any result is produced.
C24_DivisionByZeroFaults ==
  (op = "DivAssign" /\ b = 0) => (status = "fault" /\ value_ = a)

\* a nonzero decimal was divided by the zero decimal
C24_DividedByZero ==
  /\ op = "DivAssign"
  /\ b = 0
  /\ a # 0
  /\ status = "fault"

\* the operands MultDiv was called with by the operation of the state
MultDivValue2 == IF op = "MulAssign" THEN b ELSE Pow10(prec)
MultDivDivisor == IF op = "MulAssign" THEN Pow10(prec) ELSE b

\* the remainder of C++, with the sign of the dividend
Remainder(n, d) == n - d * TruncDiv(n, d)

\* value1 * value2int + value1int * value2dec, in the integers
IntegerContribution(value1, value2, divisor) ==
  value1 * TruncDiv(value2, divisor)
    + TruncDiv(value1, divisor) * Remainder(value2, divisor)

\* C25: in MultDiv, when both remainders aD = a % d and bD = b % d are
\* nonzero, the fractional contribution to the result is aD * bD / d rounded
\* by the policy: the output of a DivRounded that succeeded or, when
\* DivRounded reports failure (on the first attempt or after the gcd
\* reduction), policy.Round of the real quotient; it is never silently
\* replaced by 0.  Stated of the executions without signed overflow.
C25_FractionalContribution ==
  LET d == MultDivDivisor
      aD == Remainder(a, d)
      bD == Remainder(MultDivValue2, d)
      first == DivRounded(policy, aD * bD, d)
      c1 == Gcd(aD, d)
      c2 == Gcd(bD, d \div c1)
      aR == TruncDiv(aD, c1)
      bR == TruncDiv(bD, c2)
      dR == TruncDiv(TruncDiv(d, c1), c2)
      second == DivRounded(policy, aR * bR, dR)
      contribution == value_ - IntegerContribution(a, MultDivValue2, d)
  IN  (/\ op \in {"MulAssign", "DivAssign"}
       /\ d # 0
       /\ d # kMinInt64
       /\ aD # 0
       /\ bD # 0
       /\ ~ub)
        => /\ status = "value"
           /\ \/ Fits(aD * bD) /\ first.ok /\ contribution = first.v
              \/ /\ ~Fits(aD * bD)
                 /\ Fits(aR * bR)
                 /\ second.ok
                 /\ contribution = second.v
              \/ (Fits(aD * bD) => ~first.ok)
                   /\ contribution = RoundedQuotient(policy, aD * bD, d)
              \/ (Fits(aD * bD) => ~first.ok)
                   /\ contribution = Round(policy, aD * bD, d)

\* whether the first DivRounded of MultDiv, on aD * bD, reported failure
FirstAttemptFailed ==
  LET d == MultDivDivisor
      aD == Remainder(a, d)
      bD == Remainder(MultDivValue2, d)
  IN  /\ op \in {"MulAssign", "DivAssign"}
      /\ d # 0
      /\ d # kMinInt64
      /\ aD # 0
      /\ bD # 0
      /\ Fits(aD * bD)
      /\ ~DivRounded(policy, aD * bD, d).ok

\* the contribution is as stated unless the first attempt failed
ContributionUnlessFirstAttemptFailed ==
  ~FirstAttemptFailed => C25_FractionalContribution

\* a first attempt that failed contributes nothing
FirstAttemptFailureContributesZero ==
  (FirstAttemptFailed /\ ~ub)
    => (/\ status = "value"
        /\ value_ = IntegerContribution(a, MultDivValue2, MultDivDivisor))

\* C26: IsMultOverflow(a, b) answers exactly whether the mathematical
\* product a * b lies outside [min_i64, max_i64], for every combination of
\* signs, including operands equal to min_i64.
C26_IsMultOverflowExact ==
  op = "IsMultOverflow" => (ok <=> ~Fits(a * b))

\* the answer is exact unless the product is min_i64 or -min_i64 with a
\* negative operand
IsMultOverflowExactElsewhere ==
  (/\ op = "IsMultOverflow"
   /\ a * b # kMinInt64
   /\ ~(a * b = -kMinInt64 /\ {a, b} = {kMinInt64, -1}))
    => (ok <=> ~Fits(a * b))

\* min_i64 * -1 is reported not to overflow; a product equal to min_i64 of
\* factors other than 1 is reported to overflow
IsMultOverflowAtLeast ==
  /\ (op = "IsMultOverflow" /\ {a, b} = {kMinInt64, -1}) => ~ok
  /\ (op = "IsMultOverflow" /\ a * b = kMinInt64 /\ a # 1 /\ b # 1) => ok

----------------------------------------------------------------------------
(* Claims on the scan of ParseUnpacked *)

\* the index in t of the first character after the leading spaces and the
\* optional sign
IntegerPartAt(t) ==
  LeadingSpaces(t)
    + (IF HasSign(Drop(t, LeadingSpaces(t))) THEN 1 ELSE 0) + 1

\* the integer part of t starts with a zero that another digit follows
HasLeadingZero(t) ==
  /\ IntegerPartAt(t) + 1 <= Len(t)
  /\ t[IntegerPartAt(t)] = "0"
  /\ t[IntegerPartAt(t) + 1] \in DIGIT

\* t without the first zero of its integer part
WithoutLeadingZero(t) ==
  Take(t, IntegerPartAt(t) - 1) \o Drop(t, IntegerPartAt(t))

\* C27: leading zeros are elided: a text whose integer part (after the
\* optional sign) is prefixed with a '0' parses as the text without that
\* zero does: the same value, the same success or error code; hence for any
\* number of zeros, which never count toward the cap on integer digits.
C27_LeadingZerosElided ==
  (op = "ParseUnpacked" /\ HasLeadingZero(text))
    => LET shorter == ParseUnpacked(WithoutLeadingZero(text), parse_options)
       IN  /\ unpacked_result.error = shorter.error
           /\ unpacked_result.before = shorter.before
           /\ unpacked_result.after = shorter.after
           /\ unpacked_result.is_negative = shorter.is_negative
           /\ unpacked_result.decimal_digits = shorter.decimal_digits

\* zeros before as many digits as the cap allows were parsed
C27_ZerosBeforeFullInteger ==
  /\ op = "ParseUnpacked"
  /\ text = <<"-", "0", "0", "9", "9">>
  /\ unpacked_result.error = NoError
  /\ unpacked_result.before = 99
  /\ unpacked_result.is_negative

\* C28: every error-free result of ParseUnpacked has
\* 0 <= after < 10^decimal_digits and decimal_digits <= kMaxDecimalDigits,
\* and every (before, after) that Parse passes to FromUnpacked has matched
\* signs and |after| below the power of ten asserted, so that no UASSERT of
\* FromUnpacked fails, also when the digit after the last one kept is
\* rounded up or when extra digits are rounded to Prec places by the policy.
C28_UnpackedInvariant ==
  op = "Parse"
    => LET parsed == ParseUnpacked(text, parse_options)
       IN  /\ parsed.error = NoError
                => /\ parsed.after >= 0
                   /\ parsed.after < Pow10(parsed.decimal_digits)
                   /\ parsed.decimal_digits <= kMaxDecimalDigits
           /\ status # "abort"

\* the fraction of an error-free result is below 10^decimal_digits unless
\* the round-up of the digit after the last one kept carried out of it
UnpackedInvariantUnlessCarried ==
  op = "Parse"
    => LET parsed == ParseUnpacked(text, parse_options)
       IN  parsed.error = NoError
             => /\ parsed.after >= 0
                /\ parsed.after <= Pow10(parsed.decimal_digits)
                /\ parsed.decimal_digits <= kMaxDecimalDigits
                /\ parsed.after = Pow10(parsed.decimal_digits)
                     => /\ parsed.decimal_digits = kMaxDecimalDigits
                        /\ kAllowRounding \in parse_options

\* an assertion of FromUnpacked fails only on a fraction that a rounding
\* carried to a power of ten: by ParseUnpacked to 10^decimal_digits, or by
\* the policy to 10^Prec
AssertionFailsOnlyOnCarry ==
  (op = "Parse" /\ status = "abort")
    => LET parsed == ParseUnpacked(text, parse_options)
           after == IF parsed.is_negative THEN -parsed.after
                    ELSE parsed.after
           rounded == DivRounded(policy, after,
                                 Pow10(parsed.decimal_digits - prec))
       IN  \/ parsed.after = Pow10(parsed.decimal_digits)
           \/ /\ parsed.decimal_digits > prec
              /\ rounded.ok
              /\ MathAbs(rounded.v) = Pow10(prec)

\* C29: the first error wins: once ParseUnpacked has recorded an error
\* while scanning the number (kSpace, kWrongChar, kBoundaryDot, kOverflow or
\* kRounding), no later step overwrites the error code or moves position,
\* whatever characters follow, and the result returned carries that error
\* code and that position.
C29_FirstErrorWins ==
  [][parse_state.error # NoError
       => /\ parse_state'.error = parse_state.error
          /\ parse_state'.position = parse_state.position
          /\ op' = "ParseUnpacked"
               => /\ unpacked_result'.error = parse_state.error
                  /\ unpacked_result'.error_position = parse_state.position]_vars

\* a boundary dot was refused at the first character and digits beyond the
\* cap followed
C29_BoundaryDotThenTooManyDigits ==
  /\ op = "ParseUnpacked"
  /\ text = <<".", "9", "9", "9">>
  /\ parse_options = {}
  /\ unpacked_result.error = "kBoundaryDot"
  /\ unpacked_result.error_position = 0

\* the statements taken one by one return what ParseUnpacked returns
ScanReturnsParseUnpacked ==
  op = "ParseUnpacked"
    => unpacked_result = ParseUnpacked(text, parse_options)

----------------------------------------------------------------------------
(* Claims on casts between precisions *)

\* C30: for every rounding policy, precisions P1 <= P2 and decimal d of
\* precision P1 whose mantissa scaled by 10^(P2 - P1) fits the word,
\* casting d up to P2 and back down to P1 with decimal_cast returns d.
C30_PrecisionRoundTrip ==
  (op = "decimal_cast down" /\ Fits(a * Pow10(prec2 - prec)))
    => (status = "value" /\ ~ub /\ value_ = a)

\* the same where the scaled mantissa is half the scale away from both ends
\* of the range
PrecisionRoundTripAwayFromRangeEnds ==
  LET scale == Pow10(prec2 - prec)
  IN  (/\ op = "decimal_cast down"
       /\ Fits(a * scale + scale \div 2)
       /\ Fits(a * scale - scale \div 2))
        => (status = "value" /\ ~ub /\ value_ = a)

====
